---- MODULE Spec2Model ----
(***************************************************************************)
(* Repagination engine of tiptap-extension-pagination:                     *)
(*   - the flow-packing pass (buildPageView / buildNewDocument),           *)
(*   - the cursor remapper (mapCursorPosition),                            *)
(*   - the trigger controller (Plugins/Pagination.ts).                     *)
(*                                                                         *)
(* A document is a sequence of top-level nodes.  A node is a record with a *)
(* type; text blocks (paragraph, heading) carry the number of characters   *)
(* they hold (text), an identity standing for their content (id) and the   *)
(* height the DOM reports for them (h); every other node carries its       *)
(* children (content).  A page also carries its page attributes (attrs),   *)
(* abstracted to the body height they resolve to.                          *)
(***************************************************************************)
EXTENDS Integers, Sequences, FiniteSets, TLC

\* ------------------------------------------------------------------ bounds
MaxBlocks == 3

\* measured heights the DOM can report for a flow block
Heights == {1, 3}
\* body heights a page's attributes can resolve to
BodyHeights == {2, 3}

Null == 0 - 1

\* ------------------------------------------------------------ generic helpers
Min(a, b) == IF a < b THEN a ELSE b
Max(a, b) == IF a > b THEN a ELSE b
Abs(a) == IF a < 0 THEN 0 - a ELSE a

RECURSIVE Concat(_)
Concat(seqs) == IF seqs = <<>> THEN <<>> ELSE Head(seqs) \o Concat(Tail(seqs))

RECURSIVE SumHeights(_)
SumHeights(blocks) == IF blocks = <<>> THEN 0 ELSE Head(blocks).h + SumHeights(Tail(blocks))

\* ------------------------------------------------------------ document model
TextblockTypes == {"paragraph", "heading"}

isParagraphNode(node) == node.type = "paragraph"
isPageNode(node) == node.type = "page"
isBodyNode(node) == node.type = "body"
isHeaderFooterNode(node) == node.type = "header-footer"

RECURSIVE nodeSize(_)
RECURSIVE contentSize(_)
\* PMNode.nodeSize: a text block is its text plus its two tokens, any other
\* node its content plus its two tokens
nodeSize(node) ==
    IF node.type \in TextblockTypes THEN 2 + node.text ELSE 2 + contentSize(node.content)
\* Fragment.size
contentSize(content) ==
    IF content = <<>> THEN 0 ELSE nodeSize(Head(content)) + contentSize(Tail(content))

getMaybeNodeSize(node) == IF node = <<>> THEN 0 ELSE nodeSize(node[1])

\* the offset forEach passes for child i of a fragment
childOffset(content, i) == contentSize(SubSeq(content, 1, i - 1))

emptyParagraph == [type |-> "paragraph", id |-> 0, text |-> 0, h |-> 0]

DefaultPageAttributes == [bodyHeight |-> 3]

\* the header/footer region created when a page has none
defaultHeaderFooter(pageRegionType) ==
    [type |-> "header-footer", hfType |-> pageRegionType, content |-> <<emptyParagraph>>]

createBody(blocks) == [type |-> "body", content |-> blocks]
createPage(attrs, regions) == [type |-> "page", attrs |-> attrs, content |-> regions]

\* an optional node is a sequence of length 0 or 1
getPageRegionNode(existingPageNode, pageRegionType) ==
    IF existingPageNode = <<>> \/ ~isPageNode(existingPageNode[1]) THEN <<>>
    ELSE LET c == existingPageNode[1].content
             hits == {i \in 1..Len(c) : isHeaderFooterNode(c[i]) /\ c[i].hfType = pageRegionType}
         IN  IF hits = {} THEN <<>>
             ELSE <<c[CHOOSE i \in hits : \A j \in hits : i <= j]>>

\* doc.maybeChild(index), index counted from 0
maybeChild(doc, index) == IF index >= 0 /\ index < Len(doc) THEN <<doc[index + 1]>> ELSE <<>>

isPageNumInRange(doc, pageNum) == pageNum >= 0 /\ pageNum < Len(doc)

\* the attributes of page pageNum: those of the page node at that index, the
\* defaults when the document has no page there
getPaginationNodeAttributes(doc, pageNum) ==
    LET existing == maybeChild(doc, pageNum)
    IN  IF existing # <<>> /\ isPageNode(existing[1])
        THEN [pageNodeAttributes |-> existing[1].attrs,
              bodyHeight |-> existing[1].attrs.bodyHeight]
        ELSE [pageNodeAttributes |-> DefaultPageAttributes,
              bodyHeight |-> DefaultPageAttributes.bodyHeight]

\* ------------------------------------------------------ collectContentNodes
\* the flow blocks of a page node standing at pageOffset, with their positions
RECURSIVE collectFromPage(_, _, _)
collectFromPage(page, pageOffset, r) ==
    IF r > Len(page.content) THEN <<>>
    ELSE LET pageRegionNode == page.content[r]
             truePageRegionOffset == childOffset(page.content, r) + 1
             here ==
                 IF isHeaderFooterNode(pageRegionNode) THEN <<>>
                 ELSE IF isBodyNode(pageRegionNode)
                 THEN [c \in 1..Len(pageRegionNode.content) |->
                          [node |-> pageRegionNode.content[c],
                           pos |-> pageOffset + truePageRegionOffset
                                   + (childOffset(pageRegionNode.content, c) + 1)]]
                 ELSE <<[node |-> pageRegionNode, pos |-> pageOffset + truePageRegionOffset]>>
         IN  here \o collectFromPage(page, pageOffset, r + 1)

RECURSIVE collectFrom(_, _)
collectFrom(doc, i) ==
    IF i > Len(doc) THEN <<>>
    ELSE LET node == doc[i]
             pageOffset == childOffset(doc, i)
             here == IF isPageNode(node) THEN collectFromPage(node, pageOffset, 1)
                     ELSE <<[node |-> node, pos |-> pageOffset + 1]>>
         IN  here \o collectFrom(doc, i + 1)

collectContentNodes(doc) == collectFrom(doc, 1)

\* the height the DOM reports for each content node
measureNodeHeights(contentNodes) == [i \in 1..Len(contentNodes) |-> contentNodes[i].node.h]

\* --------------------------------------------------------- buildNewDocument
\* the remaining-capacity check of a normal pass: the paragraph breaks as
\* soon as it does not fit the height that is left
shouldBreakParagraph(nodeHeight, remainingHeight) == nodeHeight > remainingHeight

\* mutant: the page counts as full only once the block reaches past one more unit
isPageFullLate(currentHeight, nodeHeight, bodyHeight) ==
    currentHeight + nodeHeight > bodyHeight + 1
\* mutant: the page counts as full already when the block fills it exactly
isPageFullEarly(currentHeight, nodeHeight, bodyHeight) ==
    currentHeight + nodeHeight >= bodyHeight

\* mutant: a body height that is not positive is taken for no limit
isPageFullValidHeightOnly(currentHeight, nodeHeight, bodyHeight) ==
    bodyHeight > 0 /\ currentHeight + nodeHeight > bodyHeight

isPageFull(currentHeight, nodeHeight, bodyHeight) == currentHeight + nodeHeight > bodyHeight

\* mutant: only paragraphs ever break
shouldBreakHereParagraphsOnly(node, nodeHeight, currentHeight, bodyHeight, isPasteOperation) ==
    IF isPageFull(currentHeight, nodeHeight, bodyHeight) /\ isParagraphNode(node)
    THEN LET remainingHeight == bodyHeight - currentHeight
         IN  IF isPasteOperation THEN remainingHeight <= 0
             ELSE shouldBreakParagraph(nodeHeight, remainingHeight)
    ELSE FALSE

\* mutant: a paste pass breaks paragraphs as a normal pass does
shouldBreakHereWhateverTheMode(node, nodeHeight, currentHeight, bodyHeight, isPasteOperation) ==
    IF isPageFull(currentHeight, nodeHeight, bodyHeight) /\ isParagraphNode(node)
    THEN shouldBreakParagraph(nodeHeight, bodyHeight - currentHeight)
    ELSE isPageFull(currentHeight, nodeHeight, bodyHeight)

shouldBreakHere(node, nodeHeight, currentHeight, bodyHeight, isPasteOperation) ==
    IF isPageFull(currentHeight, nodeHeight, bodyHeight) /\ isParagraphNode(node)
    THEN LET remainingHeight == bodyHeight - currentHeight
         IN  IF isPasteOperation THEN remainingHeight <= 0
             ELSE shouldBreakParagraph(nodeHeight, remainingHeight)
    ELSE isPageFull(currentHeight, nodeHeight, bodyHeight)

\* mutant: the region is always created anew
constructHeaderFooterAnew(existingPageNode, pageRegionType) ==
    <<defaultHeaderFooter(pageRegionType)>>

constructHeaderFooter(existingPageNode, pageRegionType) ==
    LET hfNode == getPageRegionNode(existingPageNode, pageRegionType)
    IN  IF hfNode # <<>> THEN hfNode ELSE <<defaultHeaderFooter(pageRegionType)>>

constructHeader(options, existingPageNode) ==
    IF ~options.enableHeader THEN <<>> ELSE constructHeaderFooter(existingPageNode, "header")

constructFooter(options, existingPageNode) ==
    IF ~options.enableFooter THEN <<>> ELSE constructHeaderFooter(existingPageNode, "footer")

\* mutant: the footer is put before the body
constructPageRegionsFooterFirst(options, existingPageNode, currentPageHeader, currentPageContent) ==
    currentPageHeader \o constructFooter(options, existingPageNode) \o <<createBody(currentPageContent)>>

constructPageRegions(options, existingPageNode, currentPageHeader, currentPageContent) ==
    currentPageHeader \o <<createBody(currentPageContent)>> \o constructFooter(options, existingPageNode)

\* mutant: the page is created with the default attributes
addPageDefaultAttributes(options, st) ==
    createPage(DefaultPageAttributes,
               constructPageRegions(options, st.existingPageNode, st.currentPageHeader,
                                    st.currentPageContent))

addPage(options, st) ==
    createPage(st.attrs.pageNodeAttributes,
               constructPageRegions(options, st.existingPageNode, st.currentPageHeader,
                                    st.currentPageContent))

\* mutant: the first block is taken to start right after the page and body
\* tokens, whatever the header
packInitWithoutHeader(doc, options) ==
    [pageNum |-> 0,
     pages |-> <<>>,
     existingPageNode |-> maybeChild(doc, 0),
     attrs |-> getPaginationNodeAttributes(doc, 0),
     currentPageHeader |-> constructHeader(options, maybeChild(doc, 0)),
     currentPageContent |-> <<>>,
     currentHeight |-> 0,
     oldToNewPosMap |-> [k \in {} |-> 0],
     cumulativeNewDocPos |-> 1 + 1]

\* the state of the packing loop before its first iteration
packInit(doc, options) ==
    LET existingPageNode == maybeChild(doc, 0)
        currentPageHeader == constructHeader(options, existingPageNode)
    IN  [pageNum |-> 0,
         pages |-> <<>>,
         existingPageNode |-> existingPageNode,
         attrs |-> getPaginationNodeAttributes(doc, 0),
         currentPageHeader |-> currentPageHeader,
         currentPageContent |-> <<>>,
         currentHeight |-> 0,
         oldToNewPosMap |-> [k \in {} |-> 0],
         cumulativeNewDocPos |-> 1 + getMaybeNodeSize(currentPageHeader) + 1]

\* mutant: the closed page is not kept
breakPageForgetsPage(doc, options, st) ==
    [st EXCEPT !.currentPageContent = <<>>, !.currentHeight = 0, !.pageNum = @ + 1]

\* the page break of the loop body: close the current page, open the next
breakPage(doc, options, st) ==
    LET closed == addPage(options, st)
        pageNum == st.pageNum + 1
        existingPageNode == maybeChild(doc, pageNum)
        attrs == IF isPageNumInRange(doc, pageNum)
                 THEN getPaginationNodeAttributes(doc, pageNum) ELSE st.attrs
        currentPageHeader == constructHeader(options, existingPageNode)
    IN  [st EXCEPT !.pages = Append(@, closed),
                   !.cumulativeNewDocPos =
                       @ + nodeSize(closed) - getMaybeNodeSize(st.currentPageHeader)
                         + getMaybeNodeSize(currentPageHeader),
                   !.currentPageContent = <<>>,
                   !.currentHeight = 0,
                   !.pageNum = pageNum,
                   !.existingPageNode = existingPageNode,
                   !.attrs = attrs,
                   !.currentPageHeader = currentPageHeader]

MapSet(m, k, v) == [x \in (DOMAIN m) \cup {k} |-> IF x = k THEN v ELSE m[x]]

\* mutant: a break is taken on an empty page too
packStepBreaksEmptyPage(doc, options, st, contentNode, nodeHeight, isPasteOperation) ==
    LET s1 == IF shouldBreakHere(contentNode.node, nodeHeight, st.currentHeight,
                                 st.attrs.bodyHeight, isPasteOperation)
              THEN breakPage(doc, options, st) ELSE st
        nodeStartPosInNewDoc == s1.cumulativeNewDocPos + contentSize(s1.currentPageContent)
    IN  [s1 EXCEPT !.oldToNewPosMap = MapSet(@, contentNode.pos, nodeStartPosInNewDoc),
                   !.currentPageContent = Append(@, contentNode.node),
                   !.currentHeight = @ + nodeHeight]

\* mutant: a block that was the first of a later page of the old document
\* starts a page again
packStepKeepsOldBreaks(doc, options, st, contentNode, nodeHeight, isPasteOperation) ==
    LET s1 == IF (\/ shouldBreakHere(contentNode.node, nodeHeight, st.currentHeight,
                                     st.attrs.bodyHeight, isPasteOperation)
                  \/ \E k \in 2..Len(doc) :
                         isPageNode(doc[k]) /\ contentNode.pos = childOffset(doc, k) + 2)
                 /\ Len(st.currentPageContent) > 0
              THEN breakPage(doc, options, st) ELSE st
        nodeStartPosInNewDoc == s1.cumulativeNewDocPos + contentSize(s1.currentPageContent)
    IN  [s1 EXCEPT !.oldToNewPosMap = MapSet(@, contentNode.pos, nodeStartPosInNewDoc),
                   !.currentPageContent = Append(@, contentNode.node),
                   !.currentHeight = @ + nodeHeight]

\* one iteration of the packing loop, for content node i
packStep(doc, options, st, contentNode, nodeHeight, isPasteOperation) ==
    LET s1 == IF shouldBreakHere(contentNode.node, nodeHeight, st.currentHeight,
                                 st.attrs.bodyHeight, isPasteOperation)
                 /\ Len(st.currentPageContent) > 0
              THEN breakPage(doc, options, st) ELSE st
        nodeStartPosInNewDoc == s1.cumulativeNewDocPos + contentSize(s1.currentPageContent)
    IN  [s1 EXCEPT !.oldToNewPosMap = MapSet(@, contentNode.pos, nodeStartPosInNewDoc),
                   !.currentPageContent = Append(@, contentNode.node),
                   !.currentHeight = @ + nodeHeight]

RECURSIVE packLoop(_, _, _, _, _, _, _)
packLoop(doc, options, st, contentNodes, nodeHeights, isPasteOperation, i) ==
    IF i > Len(contentNodes) THEN st
    ELSE CHOOSE r \in
             {packLoop(doc, options, s, contentNodes, nodeHeights, isPasteOperation, i + 1) :
                 s \in {packStep(doc, options, st, contentNodes[i], nodeHeights[i],
                                 isPasteOperation)}} : TRUE

limitMappedCursorPositions(oldToNewPosMap, docSize) ==
    [k \in DOMAIN oldToNewPosMap |->
        IF oldToNewPosMap[k] > docSize THEN docSize ELSE oldToNewPosMap[k]]

buildNewDocument(doc, options, contentNodes, nodeHeights, isPasteOperation) ==
    CHOOSE r \in
        {LET pages == IF Len(st.currentPageContent) > 0
                      THEN Append(st.pages, addPage(options, st)) ELSE st.pages
         IN  [newDoc |-> pages,
              oldToNewPosMap |->
                  limitMappedCursorPositions(st.oldToNewPosMap, contentSize(pages))] :
            st \in {packLoop(doc, options, packInit(doc, options), contentNodes,
                             nodeHeights, isPasteOperation, 1)}} : TRUE

\* -------------------------------------------------------- mapCursorPosition
\* whether value lies in the range that starts at min and ends before max
inRange(value, min, max) == value >= min /\ value < max

\* mutant: a key as close as the closest so far replaces it
RECURSIVE closestOldPosLastOnTies(_, _, _, _, _)
closestOldPosLastOnTies(contentNodes, oldCursorPos, i, closest, minDistance) ==
    IF i > Len(contentNodes) THEN closest
    ELSE LET oldPos == contentNodes[i].pos
             distance == Abs(oldPos - oldCursorPos)
         IN  IF closest = Null \/ distance <= minDistance
             THEN closestOldPosLastOnTies(contentNodes, oldCursorPos, i + 1, oldPos, distance)
             ELSE closestOldPosLastOnTies(contentNodes, oldCursorPos, i + 1, closest,
                                          minDistance)

\* the scan for the closest key, from key i on: the keys of the map come in
\* the order in which they were set, which is the order of the content
\* nodes; closest is -1 and minDistance without bound before the first key
RECURSIVE closestOldPos(_, _, _, _, _)
closestOldPos(contentNodes, oldCursorPos, i, closest, minDistance) ==
    IF i > Len(contentNodes) THEN closest
    ELSE LET oldPos == contentNodes[i].pos
             distance == Abs(oldPos - oldCursorPos)
         IN  IF closest = Null \/ distance < minDistance
             THEN closestOldPos(contentNodes, oldCursorPos, i + 1, oldPos, distance)
             ELSE closestOldPos(contentNodes, oldCursorPos, i + 1, closest, minDistance)

\* mutant: only an offset that is a key of the map is mapped
mapCursorPositionExactOnly(contentNodes, oldCursorPos, oldToNewPosMap, newDocContentSize) ==
    IF oldCursorPos \in DOMAIN oldToNewPosMap THEN oldToNewPosMap[oldCursorPos] ELSE Null

mapCursorPosition(contentNodes, oldCursorPos, oldToNewPosMap, newDocContentSize) ==
    IF oldCursorPos \in DOMAIN oldToNewPosMap THEN oldToNewPosMap[oldCursorPos]
    ELSE LET containing == {i \in 1..Len(contentNodes) :
                               inRange(oldCursorPos, contentNodes[i].pos,
                                       contentNodes[i].pos + nodeSize(contentNodes[i].node))}
         IN  IF containing # {}
             THEN LET i == CHOOSE x \in containing : \A y \in containing : x <= y
                      oldNodePos == contentNodes[i].pos
                      offsetInNode == oldCursorPos - oldNodePos
                  IN  IF oldNodePos \notin DOMAIN oldToNewPosMap THEN 0
                      ELSE Min(oldToNewPosMap[oldNodePos] + offsetInNode, newDocContentSize - 1)
             ELSE CHOOSE r \in
                      {IF closest # Null THEN oldToNewPosMap[closest] ELSE Null :
                          closest \in {closestOldPos(contentNodes, oldCursorPos, 1, Null, 0)}} :
                      TRUE

CURSOR_MAPPING_ATTEMPTS == 3

\* the retry loop of buildPageView: newCursorPos after the attempts from
\* `attempt` on, `current` being its value so far
RECURSIVE mapCursorAttempts(_, _, _, _, _, _)
mapCursorAttempts(contentNodes, oldCursorPos, oldToNewPosMap, newDocContentSize, attempt, current) ==
    IF attempt >= CURSOR_MAPPING_ATTEMPTS THEN current
    ELSE LET direct == mapCursorPosition(contentNodes, oldCursorPos, oldToNewPosMap,
                                         newDocContentSize)
         IN  IF direct # Null THEN direct
             ELSE mapCursorAttempts(contentNodes, oldCursorPos, oldToNewPosMap,
                      newDocContentSize, attempt + 1,
                      IF attempt = 0
                      THEN mapCursorPosition(contentNodes, oldCursorPos - 1, oldToNewPosMap,
                                             newDocContentSize)
                      ELSE IF attempt = 1
                      THEN mapCursorPosition(contentNodes, oldCursorPos + 1, oldToNewPosMap,
                                             newDocContentSize)
                      ELSE direct)

\* the clamp of buildPageView on a cursor position that was found
clampCursorPos(newCursorPos, newDocContentSize) ==
    IF newCursorPos = Null THEN Null
    ELSE Max(0, Min(newCursorPos, newDocContentSize - 1))

\* ------------------------------------------------- positions in a document
\* every node below `content`, with its start position and its parent's
\* (the document itself is the parent at position Null)
RECURSIVE allNodesIn(_, _, _)
allNodesIn(content, start, parentPos) ==
    IF content = <<>> THEN <<>>
    ELSE LET node == Head(content)
             below == IF node.type \in TextblockTypes THEN <<>>
                      ELSE allNodesIn(node.content, start + 1, start)
         IN  <<[node |-> node, pos |-> start, parentPos |-> parentPos]>> \o below
             \o allNodesIn(Tail(content), start + nodeSize(node), parentPos)

allNodes(doc) == allNodesIn(doc, 0, Null)

\* the flow blocks of a document with their start offsets: the text blocks
\* outside headers and footers (those carry id 0)
flowBlocks(d) ==
    LET nodes == allNodes(d)
    IN  {n \in {nodes[i] : i \in 1..Len(nodes)} :
            n.node.type \in TextblockTypes /\ n.node.id > 0}

\* the start offset of the flow block `id` in the document
startOf(d, id) == (CHOOSE n \in flowBlocks(d) : n.node.id = id).pos

\* doc.resolve(pos): the type of the innermost node around pos and what
\* stands before and after pos in it ("none" where nothing does)
resolve(doc, pos) ==
    LET nodes == allNodes(doc)
        around == {i \in 1..Len(nodes) :
                      nodes[i].pos < pos /\ pos < nodes[i].pos + nodeSize(nodes[i].node)}
        inner == IF around = {} THEN 0
                 ELSE CHOOSE i \in around : \A j \in around : nodes[j].pos <= nodes[i].pos
        parentPos == IF inner = 0 THEN Null ELSE nodes[inner].pos
        parentType == IF inner = 0 THEN "doc" ELSE nodes[inner].node.type
        inText == parentType \in TextblockTypes
        after == {i \in 1..Len(nodes) : nodes[i].parentPos = parentPos /\ nodes[i].pos = pos}
        before == {i \in 1..Len(nodes) : nodes[i].parentPos = parentPos
                                          /\ nodes[i].pos + nodeSize(nodes[i].node) = pos}
    IN  [parentType |-> parentType,
         nodeBefore |-> IF inText
                        THEN (IF pos > nodes[inner].pos + 1 THEN "text" ELSE "none")
                        ELSE IF before = {} THEN "none"
                        ELSE nodes[CHOOSE i \in before : TRUE].node.type,
         nodeAfter |-> IF inText
                       THEN (IF pos < nodes[inner].pos + nodeSize(nodes[inner].node) - 1
                             THEN "text" ELSE "none")
                       ELSE IF after = {} THEN "none"
                       ELSE nodes[CHOOSE i \in after : TRUE].node.type]

\* Selection.near(doc.resolve(pos), 1): pos itself inside a text block, else
\* the start of the next text block, else the end of the previous one, else
\* the whole document
selectionNear(doc, pos) ==
    LET nodes == allNodes(doc)
        blocks == {i \in 1..Len(nodes) : nodes[i].node.type \in TextblockTypes}
        ahead == {i \in blocks : nodes[i].pos >= pos}
        behind == {i \in blocks : nodes[i].pos + nodeSize(nodes[i].node) <= pos}
    IN  IF resolve(doc, pos).parentType \in TextblockTypes THEN [anchor |-> pos, head |-> pos]
        ELSE IF ahead # {}
        THEN LET i == CHOOSE x \in ahead : \A y \in ahead : nodes[x].pos <= nodes[y].pos
             IN  [anchor |-> nodes[i].pos + 1, head |-> nodes[i].pos + 1]
        ELSE IF behind # {}
        THEN LET i == CHOOSE x \in behind : \A y \in behind : nodes[y].pos <= nodes[x].pos
                 end == nodes[i].pos + nodeSize(nodes[i].node) - 1
             IN  [anchor |-> end, head |-> end]
        ELSE [anchor |-> 0, head |-> contentSize(doc)]

isNodeBeforeAvailable(rpos) == rpos.nodeBefore \in {"text", "paragraph"}
isNodeAfterAvailable(rpos) == rpos.nodeAfter \in {"text", "paragraph"}

setSelectionAtEndOfDocument(doc) == [anchor |-> contentSize(doc), head |-> contentSize(doc)]

\* the selection enhancedCursorPositioning sets on the transaction.  The
\* position is inside the new document, so resolve succeeds.  Strategy 1
\* yields the selection near the position.  Strategy 2 calls
\* moveToNearestValidCursorPosition(tr, $pos) with the position alone, so
\* its $pos is undefined and Selection.findFrom throws; the handler's catch
\* then selects the end of the document.  Strategies 3 and 4 follow only a
\* strategy that returns no selection, which neither does.
enhancedCursorPositioning(doc, newCursorPos, oldCursorAnchor, oldCursorHead) ==
    IF newCursorPos = Null THEN setSelectionAtEndOfDocument(doc)
    ELSE LET rpos == resolve(doc, newCursorPos)
         IN  IF rpos.parentType \in TextblockTypes \/ isNodeBeforeAvailable(rpos)
                \/ isNodeAfterAvailable(rpos)
             THEN selectionNear(doc, newCursorPos)
             ELSE setSelectionAtEndOfDocument(doc)

\* the selection a replacement of the whole content leaves when the
\* transaction sets none: the old one mapped through the step
mapSelectionThroughReplace(selection, newDoc) ==
    LET size == contentSize(newDoc)
        m(p) == IF p <= 0 THEN 0 ELSE size
    IN  selectionNear(newDoc, m(selection.head))

\* ------------------------------------------------------------ buildPageView
\* what one call of buildPageView computes and hands to view.dispatch; each
\* local constant is the one element of a set, read from the last line up
buildPageView(doc, selection, options, isPasteOperation) ==
    CHOOSE r0 \in {CHOOSE r1 \in {CHOOSE r2 \in {CHOOSE r3 \in {
        LET oldCursorPos == Min(selection.anchor, selection.head)
            replaced == built.newDoc # doc
        IN  [replaced |-> replaced,
             isPasteOperation |-> isPasteOperation,
             oldDoc |-> doc,
             contentNodes |-> contentNodes,
             nodeHeights |-> nodeHeights,
             newDoc |-> built.newDoc,
             oldToNewPosMap |-> built.oldToNewPosMap,
             oldCursorPos |-> oldCursorPos,
             newCursorPos |-> IF replaced THEN newCursorPos ELSE Null,
             selection |-> IF ~replaced THEN selection
                           ELSE IF newCursorPos # Null
                           THEN enhancedCursorPositioning(built.newDoc, newCursorPos,
                                                          selection.anchor, selection.head)
                           ELSE mapSelectionThroughReplace(selection, built.newDoc)] :
        newCursorPos \in
            {clampCursorPos(mapCursorAttempts(contentNodes,
                                              Min(selection.anchor, selection.head),
                                              built.oldToNewPosMap,
                                              contentSize(built.newDoc), 0, Null),
                            contentSize(built.newDoc))}} : TRUE :
        built \in {buildNewDocument(doc, options, contentNodes, nodeHeights,
                                    isPasteOperation)}} : TRUE :
        nodeHeights \in {measureNodeHeights(contentNodes)}} : TRUE :
        contentNodes \in {collectContentNodes(doc)}} : TRUE

\* ==================================================================== state
VARIABLES
    doc,                \* view.state.doc
    selection,          \* view.state.selection: [anchor, head]
    options,            \* options.pageAmendmentOptions: [enableHeader, enableFooter]
    lastPass,           \* what the call of buildPageView in the last step computed
    pluginState,        \* [lastPaginationTime, pendingPagination, wasPasted]
    isPaginating,
    lastDocSize,
    lastCharCount,
    paginationTimer,    \* the id of a timer, or Null
    consecutiveErrors,
    lastErrorTime,
    lastPasteTime,
    timers,             \* the timeouts that are set: [id, kind, due]
    nextTimerId,        \* the id the next setTimeout returns
    now,                \* Date.now()
    isDestroyed,        \* view.isDestroyed
    lastStep            \* the last step: its kind and the branch update took in it

pluginVars ==
    <<pluginState, isPaginating, lastDocSize, lastCharCount, paginationTimer,
      consecutiveErrors, lastErrorTime, lastPasteTime, timers, nextTimerId, now,
      isDestroyed, lastStep>>

vars == <<doc, selection, options, lastPass, pluginVars>>

noPass ==
    [ran |-> FALSE, failed |-> FALSE, replaced |-> FALSE, isPasteOperation |-> FALSE, oldDoc |-> <<>>,
     contentNodes |-> <<>>, nodeHeights |-> <<>>, newDoc |-> <<>>,
     oldToNewPosMap |-> [k \in {} |-> 0], oldCursorPos |-> 0, newCursorPos |-> Null,
     selection |-> [anchor |-> 0, head |-> 0]]

passRecord(r) ==
    [ran |-> TRUE, failed |-> FALSE, replaced |-> r.replaced, isPasteOperation |-> r.isPasteOperation,
     oldDoc |-> r.oldDoc, contentNodes |-> r.contentNodes, nodeHeights |-> r.nodeHeights,
     newDoc |-> r.newDoc, oldToNewPosMap |-> r.oldToNewPosMap,
     oldCursorPos |-> r.oldCursorPos, newCursorPos |-> r.newCursorPos,
     selection |-> r.selection]

\* what a step leaves for the properties to read: its kind, the branch the
\* update of the plugin view took, the calls of update that found
\* isPaginating set, the passes that were started and the most that were in
\* progress at once, the metadata of the transactions of the passes that the
\* view applied, and pendingPagination as the step's own transaction and
\* what was appended to it left it
stepRecord(kind, branch, dropped, passes, maxInFlight, submitted, pendingApplied) ==
    [kind |-> kind, branch |-> branch, dropped |-> dropped, passes |-> passes,
     maxInFlight |-> maxInFlight, submitted |-> submitted,
     pendingApplied |-> pendingApplied]

\* Date.now() when the plugin is created: later than any of its windows
StartTime == 10000

\* the plugin as createPaginationPlugin leaves it
InitPlugin ==
    /\ pluginState = [lastPaginationTime |-> 0, pendingPagination |-> FALSE,
                      wasPasted |-> FALSE]
    /\ isPaginating = FALSE
    /\ lastDocSize = 0
    /\ lastCharCount = 0
    /\ paginationTimer = Null
    /\ consecutiveErrors = 0
    /\ lastErrorTime = 0
    /\ lastPasteTime = 0
    /\ timers = {}
    /\ nextTimerId = 1
    /\ now = StartTime
    /\ isDestroyed = FALSE
    /\ lastStep = stepRecord("init", "none", 0, 0, 0, <<>>, FALSE)

\* ------------------------------------------------------- input documents
\* the blocks split into runs after the indices in `breaks`
RECURSIVE splitAt(_, _, _)
splitAt(blocks, breaks, from) ==
    IF from > Len(blocks) THEN <<>>
    ELSE LET later == {b \in breaks : b >= from}
             to == IF later = {} THEN Len(blocks)
                   ELSE CHOOSE b \in later : \A c \in later : b <= c
         IN  <<SubSeq(blocks, from, to)>> \o splitAt(blocks, breaks, to + 1)

\* a paginated document: one page per run, page i with body height caps[i]
\* and the regions around its body that hdrs[i] and ftrs[i] give
paginatedDoc(runs, caps, hdrs, ftrs) ==
    [i \in 1..Len(runs) |->
        createPage([bodyHeight |-> caps[i]], hdrs[i] \o <<createBody(runs[i])>> \o ftrs[i])]

noRegions(n) == [i \in 1..n |-> <<>>]

\* the flow-block sequences of n blocks without text
PlainBlocks(n) ==
    {[i \in 1..n |-> [type |-> types[i], id |-> i, text |-> 0, h |-> hs[i]]] :
        types \in [1..n -> TextblockTypes], hs \in [1..n -> Heights]}

\* the documents packing is checked on: every block sequence, either not
\* yet paginated or grouped into pages in every way, each page with every
\* body height
PackDocs ==
    UNION {
        {blocks} \cup
        UNION { {paginatedDoc(splitAt(blocks, breaks, 1), caps,
                              noRegions(Cardinality(breaks) + 1),
                              noRegions(Cardinality(breaks) + 1)) :
                    caps \in [1..(Cardinality(breaks) + 1) -> BodyHeights]} :
                breaks \in SUBSET (1..(Len(blocks) - 1)) } :
        blocks \in UNION {PlainBlocks(n) : n \in 1..MaxBlocks} }

\* the scenarios of the specification: five paragraphs of height 50, and one
\* paragraph of height 500, on a page whose body is 120 high
ScenarioFive ==
    <<createPage([bodyHeight |-> 120],
        <<createBody([i \in 1..5 |-> [type |-> "paragraph", id |-> i, text |-> 0, h |-> 50]])>>)>>
ScenarioTall ==
    <<createPage([bodyHeight |-> 120],
        <<createBody(<<[type |-> "paragraph", id |-> 1, text |-> 0, h |-> 500]>>)>>)>>

\* ------------------------------------------------------------------ actions
\* one repagination pass on the current document
BuildPageView(isPasteOperation) ==
    \E r \in {buildPageView(doc, selection, options, isPasteOperation)} :
        /\ doc' = IF r.replaced THEN r.newDoc ELSE doc
        /\ selection' = r.selection
        /\ lastPass' = passRecord(r)
        /\ UNCHANGED <<options, pluginVars>>

\* body heights that are no capacity at all: zero and below
InvalidBodyHeights == {0, 0 - 2}

\* the block sequences grouped into pages in every way, each page with a
\* body height that is not positive
InvalidCapacityDocs ==
    UNION {
        UNION { {paginatedDoc(splitAt(blocks, breaks, 1), caps,
                              noRegions(Cardinality(breaks) + 1),
                              noRegions(Cardinality(breaks) + 1)) :
                    caps \in [1..(Cardinality(breaks) + 1) -> InvalidBodyHeights]} :
                breaks \in SUBSET (1..(Len(blocks) - 1)) } :
        blocks \in UNION {PlainBlocks(n) : n \in 1..MaxBlocks} }

\* ----------------------------------------------------- packing, on its own
InitPack ==
    /\ doc \in PackDocs \cup {ScenarioFive, ScenarioTall}
    /\ selection = selectionNear(doc, 0)
    /\ options = [enableHeader |-> FALSE, enableFooter |-> FALSE]
    /\ lastPass = noPass
    /\ InitPlugin

NextPack == \E isPasteOperation \in BOOLEAN : BuildPageView(isPasteOperation)

SpecPack == InitPack /\ [][NextPack]_vars

\* packing of documents whose pages have no capacity
InitInvalidCapacity ==
    /\ doc \in InvalidCapacityDocs
    /\ selection = selectionNear(doc, 0)
    /\ options = [enableHeader |-> FALSE, enableFooter |-> FALSE]
    /\ lastPass = noPass
    /\ InitPlugin

SpecInvalidCapacity == InitInvalidCapacity /\ [][NextPack]_vars

\* ------------------------------------------- the cursor across a replacement
RemapBlocks == 2

\* the flow blocks cursor mapping is checked on: an empty paragraph, a
\* paragraph and a heading with text
RemapKinds ==
    {[type |-> "paragraph", text |-> 0, h |-> 1],
     [type |-> "paragraph", text |-> 2, h |-> 3],
     [type |-> "heading", text |-> 1, h |-> 3]}

RemapBlockSeqs(n) ==
    {[i \in 1..n |-> [type |-> kinds[i].type, id |-> i, text |-> kinds[i].text,
                      h |-> kinds[i].h]] : kinds \in [1..n -> RemapKinds]}

\* a header or footer a page of the old document carries: one paragraph with
\* a character of text
oldHeaderFooter(pageRegionType) ==
    [type |-> "header-footer", hfType |-> pageRegionType,
     content |-> <<[type |-> "paragraph", id |-> 0, text |-> 1, h |-> 0]>>]

\* every block sequence, not yet paginated, or grouped into pages with a
\* body of height 2 in every way, the pages all with or all without a header
\* and a footer
RemapDocs ==
    UNION {
        {blocks} \cup
        UNION { {paginatedDoc(splitAt(blocks, breaks, 1),
                              [i \in 1..(Cardinality(breaks) + 1) |-> 2],
                              [i \in 1..(Cardinality(breaks) + 1) |->
                                  IF regions THEN <<oldHeaderFooter("header")>> ELSE <<>>],
                              [i \in 1..(Cardinality(breaks) + 1) |->
                                  IF regions THEN <<oldHeaderFooter("footer")>> ELSE <<>>]) :
                    regions \in BOOLEAN} :
                breaks \in SUBSET (1..(Len(blocks) - 1)) } :
        blocks \in UNION {RemapBlockSeqs(n) : n \in 1..RemapBlocks} }

InitRemap ==
    /\ doc \in RemapDocs
    /\ \E p \in 0..contentSize(doc) : selection = [anchor |-> p, head |-> p]
    /\ \E enabled \in BOOLEAN : options = [enableHeader |-> enabled, enableFooter |-> enabled]
    /\ lastPass = noPass
    /\ InitPlugin

SpecRemap == InitRemap /\ [][NextPack]_vars

\* --------------------------------------------------- boundary predicates
\* doc.resolve(pos) throws a RangeError for an offset outside the document
resolveThrows(d, pos) == pos < 0 \/ pos > contentSize(d)

\* the start and the end of the whole document
isPosAtStartOfDocument(d, pos, allowTextBlock) ==
    \/ pos = 0
    \/ allowTextBlock /\ \E b \in flowBlocks(d) :
                             b.pos + 1 = pos /\ \A c \in flowBlocks(d) : b.pos <= c.pos

isPosAtEndOfDocument(d, pos) == pos = contentSize(d)

isPositionWithinParagraph(d, pos) == resolve(d, pos).parentType = "paragraph"

\* the node around pos and its parent, as indices into allNodes(d); 0 for
\* the document
nodeAround(d, pos) ==
    LET nodes == allNodes(d)
        around == {i \in 1..Len(nodes) :
                      nodes[i].pos < pos /\ pos < nodes[i].pos + nodeSize(nodes[i].node)}
    IN  IF around = {} THEN 0
        ELSE CHOOSE i \in around : \A j \in around : nodes[j].pos <= nodes[i].pos

parentOf(d, i) ==
    LET nodes == allNodes(d)
        hits == {j \in 1..Len(nodes) : nodes[j].pos = nodes[i].parentPos}
    IN  IF i = 0 \/ hits = {} THEN 0 ELSE CHOOSE j \in hits : TRUE

\* the offsets of the paragraph around pos and of the body around that
\* paragraph, -1 where there is none
getStartOfBodyAndParagraphPosition(d, pos) ==
    LET nodes == allNodes(d)
        para == nodeAround(d, pos)
        body == parentOf(d, para)
    IN  [startOfParagraphPos |->
             IF para # 0 /\ isParagraphNode(nodes[para].node) THEN nodes[para].pos ELSE Null,
         startOfBodyPos |->
             IF body # 0 /\ isBodyNode(nodes[body].node) THEN nodes[body].pos ELSE Null]

\* the offsets at which the content of that paragraph and of that body end
getEndOfBodyAndParagraphPosition(d, pos) ==
    LET nodes == allNodes(d)
        para == nodeAround(d, pos)
        body == parentOf(d, para)
    IN  [endOfParagraphPos |->
             IF para # 0 /\ isParagraphNode(nodes[para].node)
             THEN nodes[para].pos + nodeSize(nodes[para].node) - 2 ELSE Null,
         endOfBodyPos |->
             IF body # 0 /\ isBodyNode(nodes[body].node)
             THEN nodes[body].pos + nodeSize(nodes[body].node) - 2 ELSE Null]

isAtStartOfNode(pos, startOfNodePos, startOfParagraphPos, checkExactStart) ==
    LET isFirstParagraph == startOfNodePos + 1 = startOfParagraphPos
        isPosAtStartOfParagraph == pos - 1 = startOfParagraphPos
    IN  IF checkExactStart THEN isFirstParagraph /\ isPosAtStartOfParagraph
        ELSE isFirstParagraph

isAtEndOfNode(pos, endOfNodePos, endOfParagraphPos, checkExactEnd) ==
    IF checkExactEnd THEN pos = endOfNodePos ELSE endOfParagraphPos + 1 = endOfNodePos

\* mutant: a body that was not found is not looked at
isPosMatchingStartOfBodyConditionAnyBody(d, pos, checkExactStart) ==
    IF isPosAtStartOfDocument(d, pos, FALSE) THEN TRUE
    ELSE IF ~isPositionWithinParagraph(d, pos) THEN FALSE
    ELSE \E at \in {getStartOfBodyAndParagraphPosition(d, pos)} :
             isAtStartOfNode(pos, at.startOfBodyPos, at.startOfParagraphPos, checkExactStart)

\* the predicates for a position that resolves, as the code orders their
\* checks
isPosMatchingStartOfBodyCondition(d, pos, checkExactStart) ==
    IF isPosAtStartOfDocument(d, pos, FALSE) THEN TRUE
    ELSE IF ~isPositionWithinParagraph(d, pos) THEN FALSE
    ELSE \E at \in {getStartOfBodyAndParagraphPosition(d, pos)} :
             IF at.startOfBodyPos < 0 THEN FALSE
             ELSE IF at.startOfParagraphPos < 0 THEN FALSE
             ELSE isAtStartOfNode(pos, at.startOfBodyPos, at.startOfParagraphPos,
                                  checkExactStart)

isPosMatchingEndOfBodyCondition(d, pos, checkExactEnd) ==
    IF isPosAtEndOfDocument(d, pos) THEN TRUE
    ELSE IF ~isPositionWithinParagraph(d, pos) THEN FALSE
    ELSE \E at \in {getEndOfBodyAndParagraphPosition(d, pos)} :
             IF at.endOfParagraphPos < 0 THEN FALSE
             ELSE IF at.endOfBodyPos < 0 THEN FALSE
             ELSE isAtEndOfNode(pos, at.endOfBodyPos, at.endOfParagraphPos, checkExactEnd)

isPosMatchingStartOfPageBodyCondition(d, pos, checkExactStart) ==
    IF isPosAtStartOfDocument(d, pos, FALSE) THEN TRUE
    ELSE IF ~isPositionWithinParagraph(d, pos) THEN FALSE
    ELSE \E at \in {getStartOfBodyAndParagraphPosition(d, pos)} :
             IF at.startOfBodyPos < 0 THEN FALSE
             ELSE IF at.startOfParagraphPos < 0 THEN FALSE
             ELSE LET isFirstParagraph == at.startOfBodyPos + 1 = at.startOfParagraphPos
                      isPosAtStartOfParagraph == pos - 1 = at.startOfParagraphPos
                  IN  IF checkExactStart THEN isFirstParagraph /\ isPosAtStartOfParagraph
                      ELSE isFirstParagraph

\* mutant: the last child is the one whose content ends where the body's
\* last offset is taken to be one further
isPosMatchingEndOfPageBodyConditionOffByOne(d, pos, checkExactEnd) ==
    IF isPosAtEndOfDocument(d, pos) THEN TRUE
    ELSE IF ~isPositionWithinParagraph(d, pos) THEN FALSE
    ELSE \E at \in {getEndOfBodyAndParagraphPosition(d, pos)} :
             IF at.endOfParagraphPos < 0 THEN FALSE
             ELSE IF at.endOfBodyPos < 0 THEN FALSE
             ELSE IF checkExactEnd THEN pos = at.endOfBodyPos
             ELSE at.endOfParagraphPos = at.endOfBodyPos

isPosMatchingEndOfPageBodyCondition(d, pos, checkExactEnd) ==
    IF isPosAtEndOfDocument(d, pos) THEN TRUE
    ELSE IF ~isPositionWithinParagraph(d, pos) THEN FALSE
    ELSE \E at \in {getEndOfBodyAndParagraphPosition(d, pos)} :
             IF at.endOfParagraphPos < 0 THEN FALSE
             ELSE IF at.endOfBodyPos < 0 THEN FALSE
             ELSE IF checkExactEnd THEN pos = at.endOfBodyPos
             ELSE at.endOfParagraphPos + 1 = at.endOfBodyPos

\* what the eight predicates give for the raw offset pos: a number is
\* resolved first, which throws outside the document
boundaryRecord(d, pos) ==
    [kind |-> "predicate", pos |-> pos, threw |-> resolveThrows(d, pos),
     results |->
        IF resolveThrows(d, pos) THEN <<>>
        ELSE <<isPosMatchingStartOfBodyCondition(d, pos, TRUE),
               isPosMatchingStartOfBodyCondition(d, pos, FALSE),
               isPosMatchingEndOfBodyCondition(d, pos, TRUE),
               isPosMatchingEndOfBodyCondition(d, pos, FALSE),
               isPosMatchingStartOfPageBodyCondition(d, pos, TRUE),
               isPosMatchingStartOfPageBodyCondition(d, pos, FALSE),
               isPosMatchingEndOfPageBodyCondition(d, pos, TRUE),
               isPosMatchingEndOfPageBodyCondition(d, pos, FALSE)>>]

\* the predicates are called with the offset that was drawn
IsPosAt(pos) ==
    /\ lastStep = [kind |-> "offset", pos |-> pos]
    /\ lastStep' = boundaryRecord(doc, pos)
    /\ UNCHANGED <<doc, selection, options, lastPass, pluginState, isPaginating,
                   lastDocSize, lastCharCount, paginationTimer, consecutiveErrors,
                   lastErrorTime, lastPasteTime, timers, nextTimerId, now, isDestroyed>>

\* a document and a raw offset, from one below the document to one past it
InitBoundary ==
    /\ doc \in RemapDocs
    /\ selection = selectionNear(doc, 0)
    /\ options = [enableHeader |-> FALSE, enableFooter |-> FALSE]
    /\ lastPass = noPass
    /\ pluginState = [lastPaginationTime |-> 0, pendingPagination |-> FALSE,
                      wasPasted |-> FALSE]
    /\ isPaginating = FALSE /\ lastDocSize = 0 /\ lastCharCount = 0
    /\ paginationTimer = Null /\ consecutiveErrors = 0 /\ lastErrorTime = 0
    /\ lastPasteTime = 0 /\ timers = {} /\ nextTimerId = 1 /\ now = StartTime
    /\ isDestroyed = FALSE
    /\ \E pos \in (0 - 1)..(contentSize(doc) + 1) : lastStep = [kind |-> "offset", pos |-> pos]

NextBoundary == \E pos \in (0 - 1)..(contentSize(doc) + 1) : IsPosAt(pos)

SpecBoundary == InitBoundary /\ [][NextBoundary]_vars

\* ------------------------------------------------------ a range selected
\* the documents of the cursor mapping with a text selection whose head
\* stands after its anchor, each inside a text block
InitRange ==
    /\ doc \in RemapDocs
    /\ \E anchor, head \in 0..contentSize(doc) :
           /\ anchor < head
           /\ resolve(doc, anchor).parentType \in TextblockTypes
           /\ resolve(doc, head).parentType \in TextblockTypes
           /\ selection = [anchor |-> anchor, head |-> head]
    /\ \E enabled \in BOOLEAN : options = [enableHeader |-> enabled, enableFooter |-> enabled]
    /\ lastPass = noPass
    /\ InitPlugin

SpecRange == InitRange /\ [][NextPack]_vars

\* ------------------------------------------- headers and footers, reused
\* the header or footer page i of the old document carries: one paragraph
\* with i characters of text
pageHeaderFooter(pageRegionType, i) ==
    [type |-> "header-footer", hfType |-> pageRegionType,
     content |-> <<[type |-> "paragraph", id |-> 0, text |-> i, h |-> 0]>>]

\* the sequences of n paragraphs without text, of every height
RegionBlocks(n) ==
    {[i \in 1..n |-> [type |-> "paragraph", id |-> i, text |-> 0, h |-> hs[i]]] :
        hs \in [1..n -> Heights]}

\* every such sequence, not yet paginated, or grouped into pages of the
\* default body height in every way, each page with or without a header and
\* a footer of its own
RegionDocs ==
    UNION {
        {blocks} \cup
        UNION { {paginatedDoc(splitAt(blocks, breaks, 1),
                              [i \in 1..(Cardinality(breaks) + 1) |->
                                  DefaultPageAttributes.bodyHeight],
                              [i \in 1..(Cardinality(breaks) + 1) |->
                                  IF regions[i] THEN <<pageHeaderFooter("header", i)>>
                                  ELSE <<>>],
                              [i \in 1..(Cardinality(breaks) + 1) |->
                                  IF regions[i] THEN <<pageHeaderFooter("footer", i)>>
                                  ELSE <<>>]) :
                    regions \in [1..(Cardinality(breaks) + 1) -> BOOLEAN]} :
                breaks \in SUBSET (1..(Len(blocks) - 1)) } :
        blocks \in UNION {RegionBlocks(n) : n \in 1..MaxBlocks} }

InitRegions ==
    /\ doc \in RegionDocs
    /\ selection = selectionNear(doc, 0)
    /\ options \in [enableHeader : BOOLEAN, enableFooter : BOOLEAN]
    /\ lastPass = noPass
    /\ InitPlugin

SpecRegions == InitRegions /\ [][NextPack]_vars

\* ------------------------------------------------ the position map, built
\* where the blocks of a run of the old document stand: at the top level,
\* in the body of a page, in the body of a page with a header and a footer,
\* or in a page without a body
RunKinds == {"top", "body", "regions", "page"}

\* the top-level nodes run i of the old document makes
runNodes(run, kind, i) ==
    IF kind = "top" THEN run
    ELSE IF kind = "body" THEN <<createPage([bodyHeight |-> 2], <<createBody(run)>>)>>
    ELSE IF kind = "regions"
    THEN <<createPage([bodyHeight |-> 2],
                      <<pageHeaderFooter("header", i), createBody(run),
                        pageHeaderFooter("footer", i)>>)>>
    ELSE <<createPage([bodyHeight |-> 2], run)>>

\* every block sequence of the cursor mapping, split into runs in every
\* way, each run standing in each of the four places
MapDocs ==
    UNION {
        UNION { {Concat([i \in 1..(Cardinality(breaks) + 1) |->
                            runNodes(splitAt(blocks, breaks, 1)[i], kinds[i], i)]) :
                    kinds \in [1..(Cardinality(breaks) + 1) -> RunKinds]} :
                breaks \in SUBSET (1..(Len(blocks) - 1)) } :
        blocks \in UNION {RemapBlockSeqs(n) : n \in 1..RemapBlocks} }

InitMap ==
    /\ doc \in MapDocs
    /\ selection = selectionNear(doc, 0)
    /\ options \in [enableHeader : BOOLEAN, enableFooter : BOOLEAN]
    /\ lastPass = noPass
    /\ InitPlugin

SpecMap == InitMap /\ [][NextPack]_vars

\* ============================================================== the plugin
MAX_CONSECUTIVE_ERRORS == 3

\* the number of characters of text in the document
countCharsInDoc(d) ==
    LET nodes == allNodes(d)
        texts == [i \in 1..Len(nodes) |->
                     [h |-> IF nodes[i].node.type \in TextblockTypes
                            THEN nodes[i].node.text ELSE 0]]
    IN  SumHeights(texts)

\* a document without any text
isNodeEmpty(d) == countCharsInDoc(d) = 0

doesDocHavePageNodes(d) == \E i \in 1..Len(d) : isPageNode(d[i])

\* the editor and the plugin's closure as one record, for the handlers to
\* pass along; threw: whether the last dispatch threw
View ==
    [doc |-> doc, selection |-> selection, pluginState |-> pluginState,
     isPaginating |-> isPaginating, lastDocSize |-> lastDocSize,
     lastCharCount |-> lastCharCount, paginationTimer |-> paginationTimer,
     consecutiveErrors |-> consecutiveErrors, lastErrorTime |-> lastErrorTime,
     lastPasteTime |-> lastPasteTime, timers |-> timers, nextTimerId |-> nextTimerId,
     lastPass |-> noPass, branch |-> "none", threw |-> FALSE,
     fails |-> FALSE, dropped |-> 0, passes |-> 0, inFlight |-> 0, maxInFlight |-> 0,
     submitted |-> <<>>, pendingApplied |-> FALSE]

\* state.apply of the plugin, for a transaction that carries the metadata `meta`
apply(s, meta) ==
    IF "needsPagination" \in meta
    THEN [s EXCEPT !.pluginState.pendingPagination = TRUE]
    ELSE IF "paginationApplied" \in meta
    THEN [s EXCEPT !.pluginState = [lastPaginationTime |-> now,
                                    pendingPagination |-> FALSE,
                                    wasPasted |-> s.pluginState.wasPasted]]
    ELSE IF "paste" \in meta
    THEN [s EXCEPT !.lastPasteTime = now,
                   !.pluginState.pendingPagination = TRUE,
                   !.pluginState.wasPasted = TRUE]
    ELSE s

\* mutant: nothing is appended
appendTransactionNothing(tr) == <<>>

\* appendTransaction: the metadata of the transaction it appends to one whose
\* steps have a from and a to (a replace step), <<>> when it appends none
appendTransaction(tr) == IF tr.replaceStep THEN <<{"needsPagination"}>> ELSE <<>>

\* window.setTimeout and clearTimeout
setTimeout(s, kind, delay) ==
    [s EXCEPT !.timers = @ \cup {[id |-> s.nextTimerId, kind |-> kind, due |-> now + delay]},
              !.paginationTimer = s.nextTimerId,
              !.nextTimerId = @ + 1]

clearTimeout(s, id) == [s EXCEPT !.timers = {t \in @ : t.id # id}]

\* mutant: the updates are dropped only once the errors exceed the maximum
tooManyErrorsExceeding(errors, timeSinceLastError) ==
    errors > MAX_CONSECUTIVE_ERRORS /\ timeSinceLastError < 5000

\* the condition on which update drops every call: too many errors in a row,
\* the last one less than five seconds ago
tooManyErrors(errors, timeSinceLastError) ==
    errors >= MAX_CONSECUTIVE_ERRORS /\ timeSinceLastError < 5000

RECURSIVE dispatch(_, _)
RECURSIVE update(_, _)

\* what buildPageView leaves when measuring or packing throws: its own
\* try/catch logs the error, nothing is dispatched and the call returns
caughtPass(s, isPasteOperation) ==
    [noPass EXCEPT !.ran = TRUE, !.failed = TRUE, !.isPasteOperation = isPasteOperation,
                   !.oldDoc = s.doc, !.newDoc = s.doc, !.selection = s.selection,
                   !.oldCursorPos = Min(s.selection.anchor, s.selection.head)]

\* mutant: the guard is released at the end of the try block, not in a
\* finally
runPassWithoutFinally(s, isPasteOperation) ==
    CHOOSE out \in
        {CHOOSE out1 \in
            {CHOOSE out2 \in
                {IF s2.threw
                 THEN [s2 EXCEPT !.consecutiveErrors = @ + 1, !.lastErrorTime = now,
                                 !.threw = FALSE,
                                 !.inFlight = @ - 1, !.lastPass = pass]
                 ELSE [s2 EXCEPT !.consecutiveErrors = 0, !.isPaginating = FALSE,
                                 !.inFlight = @ - 1, !.lastPass = pass] :
                    s2 \in {dispatch(s1, [before |-> s.doc, doc |-> s.doc,
                                          selection |-> s.selection, replaceStep |-> FALSE,
                                          meta |-> {"paginationApplied"}])}} : TRUE :
                s1 \in {IF pass.replaced
                        THEN dispatch([s EXCEPT !.isPaginating = TRUE, !.passes = @ + 1,
                                                !.inFlight = @ + 1,
                                                !.maxInFlight = Max(@, s.inFlight + 1)],
                                      [before |-> s.doc, doc |-> pass.newDoc,
                                       selection |-> pass.selection, replaceStep |-> TRUE,
                                       meta |-> {"pagination"}])
                        ELSE [s EXCEPT !.isPaginating = TRUE, !.passes = @ + 1,
                                       !.inFlight = @ + 1,
                                       !.maxInFlight = Max(@, s.inFlight + 1)]}} : TRUE :
            pass \in {IF s.fails THEN caughtPass(s, isPasteOperation)
                      ELSE passRecord(buildPageView(s.doc, s.selection, options,
                                                    isPasteOperation))}} : TRUE

\* the try/catch/finally around a pass, the same in update and in both timer
\* callbacks.  buildPageView dispatches its replacement, when it has one, on
\* the state it read; the transaction `tr` of the caller was created before
\* and is dispatched after, so it no longer matches the document once the
\* replacement is in, and dispatching it throws.
runPass(s, isPasteOperation) ==
    CHOOSE out \in
        {CHOOSE out1 \in
            {CHOOSE out2 \in
                {IF s2.threw
                 THEN [s2 EXCEPT !.consecutiveErrors = @ + 1, !.lastErrorTime = now,
                                 !.isPaginating = FALSE, !.threw = FALSE,
                                 !.inFlight = @ - 1, !.lastPass = pass]
                 ELSE [s2 EXCEPT !.consecutiveErrors = 0, !.isPaginating = FALSE,
                                 !.inFlight = @ - 1, !.lastPass = pass] :
                    s2 \in {dispatch(s1, [before |-> s.doc, doc |-> s.doc,
                                          selection |-> s.selection, replaceStep |-> FALSE,
                                          meta |-> {"paginationApplied"}])}} : TRUE :
                s1 \in {IF pass.replaced
                        THEN dispatch([s EXCEPT !.isPaginating = TRUE, !.passes = @ + 1,
                                                !.inFlight = @ + 1,
                                                !.maxInFlight = Max(@, s.inFlight + 1)],
                                      [before |-> s.doc, doc |-> pass.newDoc,
                                       selection |-> pass.selection, replaceStep |-> TRUE,
                                       meta |-> {"pagination"}])
                        ELSE [s EXCEPT !.isPaginating = TRUE, !.passes = @ + 1,
                                       !.inFlight = @ + 1,
                                       !.maxInFlight = Max(@, s.inFlight + 1)]}} : TRUE :
            pass \in {IF s.fails THEN caughtPass(s, isPasteOperation)
                      ELSE passRecord(buildPageView(s.doc, s.selection, options,
                                                    isPasteOperation))}} : TRUE

\* mutant: update never finds the guard held
guardNeverHeld(s) == FALSE

\* the guard of update: a pass is in progress
guardHeld(s) == s.isPaginating

\* the update of the plugin view, called with the state before the
\* transaction
update(s, prevDoc) ==
    IF guardHeld(s) THEN [s EXCEPT !.dropped = @ + 1]
    ELSE LET currentDocSize == contentSize(s.doc)
             currentCharCount == countCharsInDoc(s.doc)
             docChanged == s.doc # prevDoc
             initialLoad == isNodeEmpty(prevDoc) /\ ~isNodeEmpty(s.doc)
             hasPageNodes == doesDocHavePageNodes(s.doc)
             docSizeChanged == currentDocSize # s.lastDocSize
             charCountChanged == Abs(currentCharCount - s.lastCharCount) > 20
             pendingPagination == s.pluginState.pendingPagination
             timeSinceLastPagination == now - s.pluginState.lastPaginationTime
             timeSinceLastError == now - s.lastErrorTime
             wasPasted == s.pluginState.wasPasted
             timeSinceLastPaste == now - s.lastPasteTime
             needsImmediatePagination ==
                 \/ initialLoad
                 \/ docChanged /\ ~hasPageNodes
                 \/ pendingPagination
                 \/ charCountChanged /\ timeSinceLastPagination > 300
             needsPasteHandling == wasPasted /\ timeSinceLastPaste < 2000
             needsDelayedPagination ==
                 docSizeChanged /\ ~needsImmediatePagination /\ timeSinceLastPagination > 150
             tracked ==
                 [(IF s.paginationTimer # Null THEN clearTimeout(s, s.paginationTimer) ELSE s)
                     EXCEPT !.lastDocSize = currentDocSize,
                            !.lastCharCount = currentCharCount,
                            !.paginationTimer = Null]
         IN  IF tooManyErrors(s.consecutiveErrors, timeSinceLastError)
             THEN [s EXCEPT !.branch = "breaker"]
             ELSE IF needsPasteHandling
             THEN setTimeout([s EXCEPT !.branch = "paste"], "paste", 100)
             ELSE IF needsImmediatePagination
             THEN runPass([tracked EXCEPT !.branch = "immediate"], needsPasteHandling)
             ELSE IF needsDelayedPagination
             THEN setTimeout([tracked EXCEPT !.branch = "delayed"], "delayed", 50)
             ELSE [tracked EXCEPT !.branch = "idle"]

\* the state with the transaction applied: the document and the selection
\* of the transaction, and the plugin state after apply
applied(s, meta) ==
    apply([s EXCEPT !.submitted = IF s.inFlight > 0 THEN Append(@, meta) ELSE @], meta)

\* view.dispatch(tr): a transaction that was created on another document
\* than the current one is refused with an exception; otherwise the
\* transaction and what appendTransaction appends are applied and the plugin
\* view is updated
dispatch(s, tr) ==
    IF tr.before # s.doc THEN [s EXCEPT !.threw = TRUE]
    ELSE CHOOSE out \in
             {update([s2 EXCEPT !.pendingApplied =
                                    IF s.inFlight = 0 THEN s2.pluginState.pendingPagination
                                    ELSE @],
                     s.doc) :
                 s2 \in {IF appendTransaction(tr) # <<>>
                         THEN applied(applied([s EXCEPT !.doc = tr.doc,
                                                        !.selection = tr.selection], tr.meta),
                                      appendTransaction(tr)[1])
                         ELSE applied([s EXCEPT !.doc = tr.doc, !.selection = tr.selection],
                                      tr.meta)}} : TRUE

\* mutant: the callback runs the pass as update does
pasteTimerNormalMode(s) == IF isDestroyed THEN s ELSE runPass(s, FALSE)

\* mutant: the callback does not look at view.isDestroyed
pasteTimerOnDestroyedView(s) == runPass(s, TRUE)

\* the callback of the timer the paste branch sets
pasteTimer(s) == IF isDestroyed THEN s ELSE runPass(s, TRUE)

\* the callback of the timer the delayed branch sets
delayedTimer(s) ==
    IF isDestroyed THEN s ELSE [runPass(s, FALSE) EXCEPT !.paginationTimer = Null]

\* destroy of the plugin view
destroy(s) ==
    IF s.paginationTimer # Null
    THEN [clearTimeout(s, s.paginationTimer) EXCEPT !.paginationTimer = Null]
    ELSE s

\* ------------------------------------------------------ the plugin's steps
MaxTimers == 2
MaxTicks == 2

\* the time that passes in one step: a timer's delay, and a span longer than
\* the paste window and as long as the cool-down
TickSteps == {100, 5000}

ticksElapsed == ((now - StartTime) \div 5000) + (((now - StartTime) % 5000) \div 100)

\* the block the user works in
EditedBlock == {1}

\* typing into an empty block fills it, and it grows; typing in a filled
\* block empties it
editNode(node) ==
    IF node.text = 0 THEN [node EXCEPT !.text = 25, !.h = 3]
    ELSE [node EXCEPT !.text = 0, !.h = 1]

RECURSIVE editContent(_, _)
editContent(content, id) ==
    [k \in 1..Len(content) |->
        IF content[k].type \in TextblockTypes
        THEN (IF content[k].id = id THEN editNode(content[k]) ELSE content[k])
        ELSE [content[k] EXCEPT !.content = editContent(@, id)]]

\* the documents the editor starts with: a paragraph not yet in a page, and
\* a page of two paragraphs
PluginDocs ==
    {<<[type |-> "paragraph", id |-> 1, text |-> 0, h |-> 1]>>,
     <<createPage(DefaultPageAttributes,
                  <<createBody(<<[type |-> "paragraph", id |-> 1, text |-> 0, h |-> 1],
                                 [type |-> "paragraph", id |-> 2, text |-> 0, h |-> 1]>>)>>)>>}

\* the state a handler leaves
Commit(s, kind) ==
    /\ doc' = s.doc
    /\ selection' = s.selection
    /\ pluginState' = s.pluginState
    /\ isPaginating' = s.isPaginating
    /\ lastDocSize' = s.lastDocSize
    /\ lastCharCount' = s.lastCharCount
    /\ paginationTimer' = s.paginationTimer
    /\ consecutiveErrors' = s.consecutiveErrors
    /\ lastErrorTime' = s.lastErrorTime
    /\ lastPasteTime' = s.lastPasteTime
    /\ timers' = s.timers
    /\ nextTimerId' = s.nextTimerId
    /\ lastPass' = s.lastPass
    /\ lastStep' = stepRecord(kind, s.branch, s.dropped, s.passes, s.maxInFlight,
                            s.submitted, s.pendingApplied)
    /\ UNCHANGED options

\* the user types in block id: a transaction with a replace step.  The user
\* may go on typing once MaxTimers timers were set, as long as the update
\* sets no further one.
DispatchEdit(id) ==
    /\ ~isDestroyed
    /\ \E b \in flowBlocks(doc) : b.node.id = id
    /\ \E d \in {editContent(doc, id)} :
       \E f \in BOOLEAN :
       \E s \in {dispatch([View EXCEPT !.fails = f], [before |-> doc, doc |-> d,
                                 selection |-> [anchor |-> startOf(d, id) + 1,
                                                head |-> startOf(d, id) + 1],
                                 replaceStep |-> TRUE, meta |-> {}])} :
           s.nextTimerId <= MaxTimers + 1 /\ Commit(s, "edit")
    /\ UNCHANGED <<now, isDestroyed>>

\* the user pastes text into the empty block id: a transaction with a
\* replace step that carries "paste"
DispatchPaste(id) ==
    /\ ~isDestroyed
    /\ nextTimerId <= MaxTimers
    /\ \E b \in flowBlocks(doc) : b.node.id = id /\ b.node.text = 0
    /\ \E d \in {editContent(doc, id)} :
       \E f \in BOOLEAN :
       \E s \in {dispatch([View EXCEPT !.fails = f], [before |-> doc, doc |-> d,
                                 selection |-> [anchor |-> startOf(d, id) + 1,
                                                head |-> startOf(d, id) + 1],
                                 replaceStep |-> TRUE, meta |-> {"paste"}])} :
           Commit(s, "paste")
    /\ UNCHANGED <<now, isDestroyed>>

\* a transaction without steps: the selection is set, the view gains focus.
\* In every step f is whether measuring or packing throws in a pass of it.
DispatchSelection ==
    /\ ~isDestroyed
    /\ nextTimerId <= MaxTimers
    /\ \E f \in BOOLEAN :
       \E s \in {dispatch([View EXCEPT !.fails = f],
                           [before |-> doc, doc |-> doc, selection |-> selection,
                            replaceStep |-> FALSE, meta |-> {}])} :
           Commit(s, "selection")
    /\ UNCHANGED <<now, isDestroyed>>

\* a timer that is due runs its callback
TimerFires(t) ==
    /\ t \in timers
    /\ t.due <= now
    /\ \E f \in BOOLEAN :
       \E s \in {IF t.kind = "paste"
                 THEN pasteTimer([View EXCEPT !.timers = @ \ {t}, !.fails = f])
                 ELSE delayedTimer([View EXCEPT !.timers = @ \ {t}, !.fails = f])} :
           Commit(s, IF t.kind = "paste" THEN "pasteTimer" ELSE "delayedTimer")
    /\ UNCHANGED <<now, isDestroyed>>

\* time passes
Tick(d) ==
    /\ ticksElapsed < MaxTicks
    /\ now' = now + d
    /\ lastPass' = noPass
    /\ lastStep' = stepRecord("tick", "none", 0, 0, 0, <<>>, FALSE)
    /\ UNCHANGED <<doc, selection, options, pluginState, isPaginating, lastDocSize,
                   lastCharCount, paginationTimer, consecutiveErrors, lastErrorTime,
                   lastPasteTime, timers, nextTimerId, isDestroyed>>

\* the editor is destroyed
Destroy ==
    /\ ~isDestroyed
    /\ isDestroyed' = TRUE
    /\ \E s \in {destroy(View)} : Commit(s, "destroy")
    /\ UNCHANGED now

Init ==
    /\ doc \in PluginDocs
    /\ selection = selectionNear(doc, 0)
    /\ options = [enableHeader |-> FALSE, enableFooter |-> FALSE]
    /\ lastPass = noPass
    /\ InitPlugin

Next ==
    \/ \E id \in EditedBlock : DispatchEdit(id) \/ DispatchPaste(id)
    \/ DispatchSelection
    \/ \E t \in timers : TimerFires(t)
    \/ \E d \in TickSteps : Tick(d)
    \/ Destroy

Spec == Init /\ [][Next]_vars

\* the steps in which neither measuring nor packing throws
NextFair == Next /\ ~lastPass'.failed

\* the event loop runs a timer that is due, and time passes
TimerStep == \E t \in timers : TimerFires(t)
TimePasses == \E d \in TickSteps : Tick(d)

\* the plugin with timers that fire and passes in which nothing throws while
\* measuring or packing; the user may stop at any time
SpecFair ==
    Init /\ [][NextFair]_vars /\ WF_vars(TimerStep /\ ~lastPass'.failed) /\ WF_vars(TimePasses)

\* =================================================================== claims
\* the blocks of a page's body
bodyOf(page) ==
    page.content[CHOOSE i \in 1..Len(page.content) : isBodyNode(page.content[i])].content

packedBodies(newDoc) == [i \in 1..Len(newDoc) |-> bodyOf(newDoc[i])]

inputNodes(pass) == [i \in 1..Len(pass.contentNodes) |-> pass.contentNodes[i].node]

Prefix(seq, k) == SubSeq(seq, 1, k)

\* C1: the bodies of the pages a pass emits, concatenated in page order, are
\* exactly the flow blocks the pass collected, in their order, in paste and
\* in normal mode.
Lossless_C1 ==
    lastPass.ran => Concat(packedBodies(lastPass.newDoc)) = inputNodes(lastPass)

Witness_C1 ==
    /\ lastPass.ran /\ lastPass.isPasteOperation
    /\ Len(lastPass.contentNodes) >= 3 /\ Len(lastPass.newDoc) >= 2

\* C2 as claimed: after any pass, every page that holds two or more blocks
\* holds no more height than its body has.
CapacityRespectAnyMode_C2 ==
    lastPass.ran =>
        \A i \in 1..Len(lastPass.newDoc) :
            \E page \in {lastPass.newDoc[i]} :
                Len(bodyOf(page)) >= 2 => SumHeights(bodyOf(page)) <= page.attrs.bodyHeight

\* C2 as amended: on every page, every block after the first either fits
\* the body together with the blocks before it, or the pass is a paste pass,
\* the block is a paragraph and the blocks before it leave some height free.
CapacityRespect_C2 ==
    lastPass.ran =>
        \A i \in 1..Len(lastPass.newDoc) :
            \E page \in {lastPass.newDoc[i]} : \E body \in {bodyOf(page)} :
                \A k \in 2..Len(body) :
                    \/ SumHeights(Prefix(body, k)) <= page.attrs.bodyHeight
                    \/ /\ lastPass.isPasteOperation
                       /\ isParagraphNode(body[k])
                       /\ SumHeights(Prefix(body, k - 1)) < page.attrs.bodyHeight

Witness_C2 ==
    /\ lastPass.ran /\ ~lastPass.isPasteOperation
    /\ \E i \in 1..Len(lastPass.newDoc) :
           /\ Len(bodyOf(lastPass.newDoc[i])) >= 2
           /\ SumHeights(bodyOf(lastPass.newDoc[i])) = lastPass.newDoc[i].attrs.bodyHeight
    /\ Len(lastPass.newDoc) >= 2

\* C3: a pass over N >= 1 flow blocks emits at least one and at most N
\* pages, and every page it emits holds at least one block.
Progress_C3 ==
    (lastPass.ran /\ Len(lastPass.contentNodes) >= 1) =>
        /\ Len(lastPass.newDoc) >= 1
        /\ Len(lastPass.newDoc) <= Len(lastPass.contentNodes)
        /\ \A i \in 1..Len(lastPass.newDoc) : Len(bodyOf(lastPass.newDoc[i])) >= 1

Witness_C3 ==
    /\ lastPass.ran /\ Len(lastPass.contentNodes) >= 3
    /\ Len(lastPass.newDoc) = Len(lastPass.contentNodes)
    /\ \E i \in 1..Len(lastPass.contentNodes) :
           lastPass.nodeHeights[i] > lastPass.newDoc[1].attrs.bodyHeight

\* the cursor offset buildPageView hands to enhancedCursorPositioning for the
\* old cursor offset p, in the pass `pass`
remap(pass, p) ==
    clampCursorPos(mapCursorAttempts(pass.contentNodes, p, pass.oldToNewPosMap,
                                     contentSize(pass.newDoc), 0, Null),
                   contentSize(pass.newDoc))

\* whether the first strategy of enhancedCursorPositioning takes the position
strategyResolves(d, pos) ==
    \E rpos \in {resolve(d, pos)} :
        rpos.parentType \in TextblockTypes \/ isNodeBeforeAvailable(rpos)
            \/ isNodeAfterAvailable(rpos)

\* C4: when a pass replaces the tree, every old cursor offset of the old
\* document is remapped to an offset from 0 to below the size of the new
\* document, never to null, and when no strategy resolves the remapped
\* offset the selection stands at the end of the new document.
RemapTotal_C4 ==
    (lastPass.ran /\ lastPass.replaced) =>
        /\ \A p \in 0..contentSize(lastPass.oldDoc) :
              \E new \in {remap(lastPass, p)} :
                  new # Null /\ new >= 0 /\ new < contentSize(lastPass.newDoc)
        /\ lastPass.newCursorPos = remap(lastPass, lastPass.oldCursorPos)
        /\ ~strategyResolves(lastPass.newDoc, lastPass.newCursorPos) =>
              selection = [anchor |-> contentSize(doc), head |-> contentSize(doc)]
        /\ \/ selection = [anchor |-> contentSize(doc), head |-> contentSize(doc)]
           \/ /\ selection.anchor = selection.head
              /\ resolve(doc, selection.head).parentType \in TextblockTypes

Witness_C4 ==
    /\ lastPass.ran /\ lastPass.replaced
    /\ lastPass.oldCursorPos \notin DOMAIN lastPass.oldToNewPosMap
    /\ ~strategyResolves(lastPass.newDoc, lastPass.newCursorPos)
    /\ selection = [anchor |-> contentSize(doc), head |-> contentSize(doc)]

\* a document of pages each of which holds no more height than its body
\* has, unless it holds a single block
satisfiesCapacity(d) ==
    \A i \in 1..Len(d) :
        /\ isPageNode(d[i])
        /\ \E j \in 1..Len(d[i].content) : isBodyNode(d[i].content[j])
        /\ Len(bodyOf(d[i])) >= 2 => SumHeights(bodyOf(d[i])) <= d[i].attrs.bodyHeight

\* C5 as claimed: a pass over a document whose pages all satisfy the capacity
\* invariant builds an equal tree and submits no replacement.
IdempotenceOnCapacity_C5 ==
    (lastPass.ran /\ satisfiesCapacity(lastPass.oldDoc)) => ~lastPass.replaced

\* C5 as amended: a pass over the document a pass has just produced, in the
\* same mode and with the same measured heights, builds an equal tree and
\* submits no replacement.
Idempotence_C5 ==
    lastPass.ran =>
        ~buildPageView(doc, selection, options, lastPass.isPasteOperation).replaced

Witness_C5 ==
    /\ lastPass.ran /\ lastPass.replaced /\ doc = lastPass.newDoc
    /\ Len(lastPass.oldDoc) >= 2 /\ Len(doc) >= 2
    /\ \A i \in 1..Len(lastPass.oldDoc) : isPageNode(lastPass.oldDoc[i])

\* C6: in a normal pass a block joins the current page iff the page is empty
\* or the block still fits: on every page each block after the first fits
\* with the blocks before it, and the first block of every following page
\* did not fit the page before it.  Five paragraphs of height 50 on bodies
\* of height 120 give pages of 2, 2 and 1 blocks.
GreedyBreak_C6 ==
    (lastPass.ran /\ ~lastPass.isPasteOperation) =>
        \E pages \in {lastPass.newDoc} :
            /\ \A i \in 1..Len(pages) : \A k \in 2..Len(bodyOf(pages[i])) :
                   SumHeights(Prefix(bodyOf(pages[i]), k)) <= pages[i].attrs.bodyHeight
            /\ \A i \in 1..(Len(pages) - 1) :
                   SumHeights(bodyOf(pages[i])) + bodyOf(pages[i + 1])[1].h
                       > pages[i].attrs.bodyHeight
            /\ lastPass.oldDoc = ScenarioFive =>
                   [i \in 1..Len(pages) |-> Len(bodyOf(pages[i]))] = <<2, 2, 1>>

Witness_C6 ==
    /\ lastPass.ran /\ ~lastPass.isPasteOperation
    /\ lastPass.oldDoc = ScenarioFive /\ Len(lastPass.newDoc) = 3

\* C7 as claimed: in either mode a block higher than the body of its page
\* is the only block of that page.
OversizedAloneAnyMode_C7 ==
    lastPass.ran =>
        \A i \in 1..Len(lastPass.newDoc) :
            \E page \in {lastPass.newDoc[i]} : \E body \in {bodyOf(page)} :
                \A k \in 1..Len(body) :
                    body[k].h > page.attrs.bodyHeight => Len(body) = 1

\* C7 as amended: a block higher than the body of its page is emitted once
\* and whole, no block follows it on its page, and it is the first block of
\* that page unless the pass is a paste pass, the block is a paragraph and
\* the blocks before it left some height free.
OversizedAlone_C7 ==
    lastPass.ran =>
        \A i \in 1..Len(lastPass.newDoc) :
            \E page \in {lastPass.newDoc[i]} : \E body \in {bodyOf(page)} :
                \A k \in 1..Len(body) :
                    body[k].h > page.attrs.bodyHeight =>
                        /\ k = Len(body)
                        /\ \/ k = 1
                           \/ /\ lastPass.isPasteOperation
                              /\ isParagraphNode(body[k])
                              /\ SumHeights(Prefix(body, k - 1)) < page.attrs.bodyHeight
                        /\ Cardinality({j \in 1..Len(lastPass.contentNodes) :
                                           lastPass.contentNodes[j].node = body[k]}) = 1
                        /\ Cardinality({x \in 1..Len(lastPass.newDoc) :
                               \E y \in 1..Len(bodyOf(lastPass.newDoc[x])) :
                                   bodyOf(lastPass.newDoc[x])[y] = body[k]}) = 1

Witness_C7 ==
    /\ lastPass.ran /\ Len(lastPass.newDoc) >= 3
    /\ \E i \in 2..(Len(lastPass.newDoc) - 1) :
           /\ Len(bodyOf(lastPass.newDoc[i])) = 1
           /\ bodyOf(lastPass.newDoc[i])[1].h > lastPass.newDoc[i].attrs.bodyHeight

\* C8: an old cursor offset p inside a flow block that starts at s in the
\* old document and at s' in the new one is remapped to s' + (p - s), clamped
\* below the size of the new document.
RemapPreservesOffset_C8 ==
    (lastPass.ran /\ lastPass.replaced) =>
        \A b \in flowBlocks(lastPass.oldDoc) :
            \A p \in b.pos..(b.pos + nodeSize(b.node) - 1) :
                remap(lastPass, p) =
                    Min(startOf(lastPass.newDoc, b.node.id) + (p - b.pos),
                        contentSize(lastPass.newDoc) - 1)

\* the same for the documents whose blocks all stand in page bodies
RemapPreservesOffsetInPages_C8 ==
    (lastPass.ran /\ lastPass.replaced /\ \A i \in 1..Len(lastPass.oldDoc) :
                                              isPageNode(lastPass.oldDoc[i])) =>
        \A b \in flowBlocks(lastPass.oldDoc) :
            \A p \in b.pos..(b.pos + nodeSize(b.node) - 1) :
                remap(lastPass, p) =
                    Min(startOf(lastPass.newDoc, b.node.id) + (p - b.pos),
                        contentSize(lastPass.newDoc) - 1)

\* the scenario of the specification: offset 37 in a block that moves from
\* [20, 60) to [15, 55)
ScenarioRemap_C8 ==
    mapCursorPosition(<<[node |-> [type |-> "paragraph", id |-> 2, text |-> 38, h |-> 1],
                         pos |-> 20]>>,
                      37, (20 :> 15), 100) = 32

\* the steps in which a transaction is dispatched and the plugin view updated
UpdateKinds == {"edit", "paste", "selection"}

\* C9: while three or more runs in a row have failed and the last failure is
\* less than five seconds old, a view update runs no pass and sets no timer;
\* once five seconds have passed, an update is evaluated again: an edit
\* outside the paste window runs a pass, one inside it sets the paste timer.
CircuitBreaker_C9 ==
    [][lastStep'.kind \in UpdateKinds =>
          /\ (consecutiveErrors >= 3 /\ now - lastErrorTime < 5000) =>
                /\ ~lastPass'.ran
                /\ timers' = timers
                /\ nextTimerId' = nextTimerId
                /\ consecutiveErrors' = consecutiveErrors
          /\ (consecutiveErrors >= 3 /\ now - lastErrorTime >= 5000
                 /\ lastStep'.kind # "selection") =>
                IF pluginState'.wasPasted /\ now - lastPasteTime' < 2000
                THEN timers' # timers /\ ~lastPass'.ran
                ELSE lastPass'.ran]_vars

Witness_C9 ==
    /\ lastStep.kind \in UpdateKinds
    /\ lastStep.branch = "breaker"
    /\ consecutiveErrors >= 3
    /\ now - lastErrorTime < 5000
    /\ pluginState.pendingPagination

\* a trigger that is evaluated again after the cool-down: a fourth failure
\* in a row, in an update
Resumed_C9 ==
    lastStep.kind \in UpdateKinds /\ lastPass.ran /\ consecutiveErrors > 3

\* C10 as claimed: every view update inside the paste window runs no pass
\* and sets a timer of 100 ms.
PasteDeferralAlways_C10 ==
    [][(lastStep'.kind \in UpdateKinds /\ pluginState'.wasPasted
           /\ now - lastPasteTime' < 2000) =>
          /\ ~lastPass'.ran
          /\ \E t \in timers' \ timers : t.kind = "paste" /\ t.due = now + 100]_vars

\* C10 as amended: no view update inside the paste window runs a pass; unless
\* the circuit breaker drops it, it sets a timer of 100 ms, and the callback
\* of that timer, on a view that is not destroyed, runs the pass in paste
\* mode, which no update does.
PasteDeferral_C10 ==
    [][/\ (lastStep'.kind \in UpdateKinds /\ pluginState'.wasPasted
              /\ now - lastPasteTime' < 2000) =>
             /\ ~lastPass'.ran
             /\ ~(consecutiveErrors >= 3 /\ now - lastErrorTime < 5000) =>
                   /\ \E t \in timers' \ timers : t.kind = "paste" /\ t.due = now + 100
                   /\ Cardinality(timers' \ timers) = 1
       /\ (lastStep'.kind = "pasteTimer" /\ ~isDestroyed) =>
             lastPass'.ran /\ lastPass'.isPasteOperation
       /\ (lastStep'.kind \in UpdateKinds /\ lastPass'.ran) =>
             ~lastPass'.isPasteOperation]_vars

Witness_C10 ==
    /\ lastStep.kind = "pasteTimer"
    /\ lastPass.ran /\ lastPass.isPasteOperation /\ lastPass.replaced
    /\ now - lastPasteTime < 2000

\* the steps in which a timer's callback runs
TimerKinds == {"pasteTimer", "delayedTimer"}

\* C11: in no step is more than one pass in progress at a time; a call of
\* update that finds isPaginating set (such as the calls the dispatches of the
\* pass itself cause) starts no pass and sets no timer: the step that holds
\* such a call runs the one pass, and leaves no timer it did not find and the
\* guard released.
SinglePass_C11 ==
    [][lastStep'.kind \in UpdateKinds \cup TimerKinds =>
          /\ lastStep'.maxInFlight <= 1
          /\ lastStep'.dropped > 0 =>
                /\ lastStep'.passes = 1
                /\ timers' \subseteq timers
                /\ nextTimerId' = nextTimerId
          /\ ~isPaginating']_vars

\* a pass whose replacement and whose own transaction each caused a call of
\* update while the guard was held
Witness_C11 ==
    /\ lastStep.kind \in UpdateKinds
    /\ lastPass.ran /\ lastPass.replaced
    /\ lastStep.dropped >= 1
    /\ lastStep.passes = 1
    /\ pluginState.pendingPagination

\* C12 as claimed: the replacement a pass commits does not set
\* pendingPagination (seen in a timer's callback, where no transaction but
\* those of the pass is applied), and the update for a transaction that
\* changes nothing, right after a pass that replaced the document, runs no
\* further pass.
NoSelfTrigger_C12 ==
    [][/\ (lastStep'.kind \in TimerKinds /\ lastPass'.ran /\ lastPass'.replaced
              /\ ~pluginState.pendingPagination) =>
             ~pluginState'.pendingPagination
       /\ (lastStep'.kind = "selection" /\ lastPass.ran /\ lastPass.replaced) =>
             ~lastPass'.ran]_vars

\* C13 as claimed: a pass in which measuring or packing throws adds one to
\* consecutiveErrors, sets lastErrorTime to the time of the pass and leaves
\* the document it read; every other pass leaves consecutiveErrors at zero.
FailureAccounting_C13 ==
    [][(lastStep'.kind \in UpdateKinds \cup TimerKinds /\ lastPass'.ran) =>
          IF lastPass'.failed
          THEN /\ consecutiveErrors' = consecutiveErrors + 1
               /\ lastErrorTime' = now
               /\ doc' = lastPass'.oldDoc
          ELSE consecutiveErrors' = 0]_vars

\* C14 as claimed: a pass in which measuring or packing throws, and a pass
\* that its caller counts as an error, has no transaction applied by the view
\* and leaves the document and the selection it read.
FailureLeavesHost_C14 ==
    [][(/\ lastStep'.kind \in UpdateKinds \cup TimerKinds
        /\ lastPass'.ran
        /\ lastPass'.failed \/ consecutiveErrors' > consecutiveErrors) =>
          /\ lastStep'.submitted = <<>>
          /\ doc' = lastPass'.oldDoc
          /\ selection' = (IF lastPass'.failed THEN lastPass'.selection ELSE selection')]_vars

\* C15 as claimed: once the view is destroyed no timer is left set.
TeardownCancels_C15 == isDestroyed => timers = {}

\* the regions of the kind pageRegionType that the node at index i of the
\* document has: none when there is no page at i
regionsAt(d, i, pageRegionType) ==
    IF i > Len(d) \/ ~isPageNode(d[i]) THEN <<>>
    ELSE SelectSeq(d[i].content,
                   LAMBDA n : isHeaderFooterNode(n) /\ n.hfType = pageRegionType)

\* C16: with headers (footers) enabled, page i of the rebuilt document
\* carries the header (footer) of page i of the old document where that page
\* has one, and a new region of one empty paragraph where the old document
\* has no page i or its page i has none.
RegionReuse_C16 ==
    lastPass.ran =>
        \A i \in 1..Len(lastPass.newDoc) :
            \A pageRegionType \in {"header", "footer"} :
                (IF pageRegionType = "header" THEN options.enableHeader
                 ELSE options.enableFooter) =>
                    \E old \in {regionsAt(lastPass.oldDoc, i, pageRegionType)} :
                        regionsAt(lastPass.newDoc, i, pageRegionType) =
                            IF old # <<>> THEN <<old[1]>>
                            ELSE <<[type |-> "header-footer", hfType |-> pageRegionType,
                                    content |-> <<emptyParagraph>>]>>

\* a pass that moves blocks between pages and adds a page: the second page
\* keeps the old second page's header, the page that is new gets an empty one
Witness_C16 ==
    /\ lastPass.ran /\ lastPass.replaced
    /\ options.enableHeader /\ options.enableFooter
    /\ Len(lastPass.oldDoc) = 2 /\ Len(lastPass.newDoc) = 3
    /\ regionsAt(lastPass.oldDoc, 1, "header") = <<>>
    /\ regionsAt(lastPass.newDoc, 2, "header") = <<pageHeaderFooter("header", 2)>>
    /\ regionsAt(lastPass.newDoc, 2, "footer") = <<pageHeaderFooter("footer", 2)>>
    /\ regionsAt(lastPass.newDoc, 3, "header") = <<defaultHeaderFooter("header")>>
    /\ bodyOf(lastPass.newDoc[2]) # bodyOf(lastPass.oldDoc[2])

\* C17 as claimed: a pass that replaces the document while a range is
\* selected leaves the anchor at the remapped old anchor and the head at the
\* remapped old head.
RangeRemap_C17 ==
    [][(lastPass'.ran /\ lastPass'.replaced /\ selection.anchor # selection.head) =>
          /\ selection'.anchor = remap(lastPass', selection.anchor)
          /\ selection'.head = remap(lastPass', selection.head)]_vars

\* whether pos stands in a paragraph that is a child of a body
inBodyParagraph(d, pos) ==
    \E b \in flowBlocks(d) :
        /\ isParagraphNode(b.node)
        /\ b.pos < pos /\ pos < b.pos + nodeSize(b.node)
        /\ \E i \in 1..Len(allNodes(d)) :
               allNodes(d)[i].pos = b.parentPos /\ isBodyNode(allNodes(d)[i].node)

EditSetsPending_C19 ==
    [][lastStep'.kind \in {"edit", "paste"} => lastStep'.pendingApplied]_vars

\* an edit of a paginated document: the flag was clear before, set once the
\* edit was applied, and cleared again by the pass the update ran
Witness_C19 ==
    /\ lastStep.kind = "edit"
    /\ lastStep.pendingApplied
    /\ lastPass.ran /\ ~lastPass.replaced
    /\ ~pluginState.pendingPagination

\* C20 as claimed: after a pass in which nothing threw, whether it replaced
\* the document or not, pendingPagination is false and lastPaginationTime is
\* the time of the pass.
CommitStamps_C20 ==
    [][(lastStep'.kind \in UpdateKinds \cup TimerKinds /\ lastPass'.ran
           /\ ~lastPass'.failed) =>
          /\ ~pluginState'.pendingPagination
          /\ pluginState'.lastPaginationTime = now]_vars

\* the kinds of the children of a page, in order
regionKinds(page) ==
    [r \in 1..Len(page.content) |->
        IF isHeaderFooterNode(page.content[r]) THEN page.content[r].hfType
        ELSE page.content[r].type]

\* C21: every node of the document a pass builds is a page, and the children
\* of every such page are, in this order, at most one header, exactly one
\* body and at most one footer, and nothing else.
PageStructure_C21 ==
    lastPass.ran =>
        \A i \in 1..Len(lastPass.newDoc) :
            /\ isPageNode(lastPass.newDoc[i])
            /\ regionKinds(lastPass.newDoc[i]) \in
                   {<<"body">>, <<"header", "body">>, <<"body", "footer">>,
                    <<"header", "body", "footer">>}

\* a pass that built two pages, each with a header, a body and a footer,
\* from a document whose first page had neither header nor footer
Witness_C21 ==
    /\ lastPass.ran
    /\ Len(lastPass.newDoc) >= 2
    /\ \A i \in 1..Len(lastPass.newDoc) :
           regionKinds(lastPass.newDoc[i]) = <<"header", "body", "footer">>
    /\ lastPass.oldDoc # <<>> /\ isPageNode(lastPass.oldDoc[1])
    /\ Len(lastPass.oldDoc[1].content) = 1

\* whether the flow block `node` starts at offset pos of the document d
blockStartsAt(d, pos, node) == \E n \in flowBlocks(d) : n.pos = pos /\ n.node = node

\* C22: for every flow block a pass collected, the position map sends the
\* offset recorded for the block to the offset at which that block starts in
\* the new document, and the mapped offsets rise strictly in block order.
PositionMapExact_C22 ==
    lastPass.ran =>
        /\ \A i \in 1..Len(lastPass.contentNodes) :
               /\ lastPass.contentNodes[i].pos \in DOMAIN lastPass.oldToNewPosMap
               /\ blockStartsAt(lastPass.newDoc,
                                lastPass.oldToNewPosMap[lastPass.contentNodes[i].pos],
                                lastPass.contentNodes[i].node)
        /\ \A i, j \in 1..Len(lastPass.contentNodes) :
               i < j => lastPass.oldToNewPosMap[lastPass.contentNodes[i].pos]
                            < lastPass.oldToNewPosMap[lastPass.contentNodes[j].pos]

\* a pass that built two pages with headers of different sizes and a footer
\* each: the first block of the second page starts after the first page, the
\* second page's token, its header and the body's token
Witness_C22 ==
    /\ lastPass.ran
    /\ Len(lastPass.newDoc) = 2
    /\ \A i \in 1..2 : regionKinds(lastPass.newDoc[i]) = <<"header", "body", "footer">>
    /\ nodeSize(lastPass.newDoc[1].content[1]) # nodeSize(lastPass.newDoc[2].content[1])
    /\ \E i \in 1..Len(lastPass.contentNodes) :
           lastPass.oldToNewPosMap[lastPass.contentNodes[i].pos] =
               nodeSize(lastPass.newDoc[1]) + 1 + nodeSize(lastPass.newDoc[2].content[1]) + 1

\* C23: for every flow block a pass collected, the offset recorded for it is
\* the offset at which the block starts in the old document.
PositionKeysAreStarts_C23 ==
    lastPass.ran =>
        \A i \in 1..Len(lastPass.contentNodes) :
            blockStartsAt(lastPass.oldDoc, lastPass.contentNodes[i].pos,
                          lastPass.contentNodes[i].node)

\* the body height the packing loop uses for page pageNum of the new
\* document, given the old one: that of the old page at that index, the one
\* of the page before where the old document has no node there
RECURSIVE bodyHeightAt(_, _)
bodyHeightAt(d, pageNum) ==
    IF pageNum = 0 \/ isPageNumInRange(d, pageNum)
    THEN getPaginationNodeAttributes(d, pageNum).bodyHeight
    ELSE bodyHeightAt(d, pageNum - 1)

\* the documents that hold the blocks in this order: not paginated, or
\* grouped into pages in every way, each page with a body height of `heights`
regroupings(blocks, heights) ==
    {blocks} \cup
    UNION { {paginatedDoc(splitAt(blocks, breaks, 1), caps,
                          noRegions(Cardinality(breaks) + 1),
                          noRegions(Cardinality(breaks) + 1)) :
                caps \in [1..(Cardinality(breaks) + 1) -> heights]} :
            breaks \in SUBSET (1..(Len(blocks) - 1)) }

\* the documents that differ from d in the grouping of the blocks only: the
\* same blocks in the same order, and page by page the same body height
sameFlow(d, blocks) ==
    {other \in regroupings(blocks, {bodyHeightAt(d, k) : k \in 0..(Len(blocks) - 1)}) :
        \A k \in 0..(Len(blocks) - 1) : bodyHeightAt(other, k) = bodyHeightAt(d, k)}

\* C24: a pass on any document that holds the same flow blocks in the same
\* order as the one the pass read, with the same body height page by page but
\* the blocks grouped into pages differently, builds, in the same mode, pages
\* with the same bodies.
Deterministic_C24 ==
    lastPass.ran =>
        \A other \in sameFlow(lastPass.oldDoc, inputNodes(lastPass)) :
            packedBodies(buildNewDocument(other, options, collectContentNodes(other),
                                          measureNodeHeights(collectContentNodes(other)),
                                          lastPass.isPasteOperation).newDoc)
                = packedBodies(lastPass.newDoc)

\* a pass that regrouped a document of two pages into two other pages, while
\* the same blocks also stand on one page and on three in other documents
Witness_C24 ==
    /\ lastPass.ran /\ lastPass.replaced
    /\ Len(lastPass.oldDoc) = 2 /\ isPageNode(lastPass.oldDoc[1])
    /\ Len(lastPass.newDoc) = 2
    /\ \E one, three \in sameFlow(lastPass.oldDoc, inputNodes(lastPass)) :
           Len(one) = 1 /\ isPageNode(one[1]) /\ Len(three) = 3

\* the document an update of the step `kind` reads: the one the
\* transaction of the step left
stepDoc(kind) ==
    IF kind \in {"edit", "paste"} THEN editContent(doc, CHOOSE id \in EditedBlock : TRUE)
    ELSE doc

\* whether the update of the step `kind` is inside the paste window: a
\* paste opens it, and it stays open for two seconds while wasPasted is set
inPasteWindow(kind) ==
    kind = "paste" \/ (pluginState.wasPasted /\ now - lastPasteTime < 2000)

\* whether the update of the step `kind`, the step's transaction applied,
\* finds one of the three conditions of an immediate pass that do not depend
\* on the character count
mustRunNow(kind, pendingApplied) ==
    \/ pendingApplied
    \/ isNodeEmpty(doc) /\ ~isNodeEmpty(stepDoc(kind))
    \/ stepDoc(kind) # doc /\ ~doesDocHavePageNodes(stepDoc(kind))

\* C25 as claimed: an update of the view outside a pass, not dropped by the
\* circuit breaker and not inside the paste window, that finds
\* pendingPagination set (or the first text in an empty document, or a
\* changed document without pages) runs a pass within the step, and no run
\* of the delayed branch that was scheduled before the step is still
\* scheduled after it.
PendingForcesPass_C25 ==
    [][(/\ lastStep'.kind \in UpdateKinds
        /\ ~tooManyErrors(consecutiveErrors, now - lastErrorTime)
        /\ ~inPasteWindow(lastStep'.kind)
        /\ mustRunNow(lastStep'.kind, lastStep'.pendingApplied))
       => /\ lastStep'.branch = "immediate"
          /\ lastPass'.ran
          /\ \A t \in timers \cap timers' : t.kind # "delayed"]_vars

\* the pass alone: it is run, whatever becomes of the timers
PendingRunsPass_C25 ==
    [][(/\ lastStep'.kind \in UpdateKinds
        /\ ~tooManyErrors(consecutiveErrors, now - lastErrorTime)
        /\ ~inPasteWindow(lastStep'.kind)
        /\ mustRunNow(lastStep'.kind, lastStep'.pendingApplied))
       => /\ lastStep'.branch = "immediate"
          /\ lastPass'.ran]_vars

\* whether the update of the step `kind` finds the character count more than
\* the threshold away from the recorded one, and the last repagination more
\* than the minimum interval ago
driftExceeded(kind) ==
    /\ Abs(countCharsInDoc(stepDoc(kind)) - lastCharCount) > 20
    /\ now - pluginState.lastPaginationTime > 300

\* C26 as claimed: the recorded character count is the count of the document
\* the last pass measured - a step that runs a pass records it, a step that
\* runs none leaves it - and an update of the view outside a pass, not
\* dropped by the circuit breaker and not inside the paste window, that finds
\* the count more than 20 away from the recorded one and the last
\* repagination more than 300 ms ago runs a pass within the step.
DriftSinceLastPass_C26 ==
    [][lastStep'.kind \in UpdateKinds \cup TimerKinds =>
          /\ (lastPass'.ran /\ ~lastPass'.failed)
                 => lastCharCount' = countCharsInDoc(lastPass'.oldDoc)
          /\ ~lastPass'.ran => lastCharCount' = lastCharCount
          /\ (/\ lastStep'.kind \in UpdateKinds
              /\ ~tooManyErrors(consecutiveErrors, now - lastErrorTime)
              /\ ~inPasteWindow(lastStep'.kind)
              /\ driftExceeded(lastStep'.kind))
                 => lastStep'.branch = "immediate" /\ lastPass'.ran]_vars

\* the trigger alone, with the count update records: it holds
DriftTrigger_C26 ==
    [][(/\ lastStep'.kind \in UpdateKinds
        /\ ~tooManyErrors(consecutiveErrors, now - lastErrorTime)
        /\ ~inPasteWindow(lastStep'.kind)
        /\ driftExceeded(lastStep'.kind))
       => lastStep'.branch = "immediate" /\ lastPass'.ran]_vars

\* C27 as claimed: in every state at most one run is scheduled.
SingleTimer_C27 == Cardinality(timers) <= 1

\* whether, in a paste pass, a block of height h starts a new page when the
\* page it meets is not empty, holds blocks of height currentHeight and has
\* a body of height bodyHeight: it overflows the page, and it is no
\* paragraph or nothing of the body's height is left
pasteBreak(node, currentHeight, bodyHeight) ==
    /\ currentHeight + node.h > bodyHeight
    /\ ~isParagraphNode(node) \/ bodyHeight - currentHeight <= 0

\* C28: in a paste pass every block after the first of a page is one that
\* the rule appends to the blocks before it - it fits, or it is a paragraph
\* and some height was left - and the first block of every following page is
\* one that the rule breaks before, given the whole page before it.
PasteBreakRule_C28 ==
    (lastPass.ran /\ lastPass.isPasteOperation) =>
        \E pages \in {lastPass.newDoc} :
            /\ \A i \in 1..Len(pages) : \A k \in 2..Len(bodyOf(pages[i])) :
                   ~pasteBreak(bodyOf(pages[i])[k],
                               SumHeights(Prefix(bodyOf(pages[i]), k - 1)),
                               pages[i].attrs.bodyHeight)
            /\ \A i \in 1..(Len(pages) - 1) :
                   pasteBreak(bodyOf(pages[i + 1])[1], SumHeights(bodyOf(pages[i])),
                              pages[i].attrs.bodyHeight)

\* a paste pass that appended a paragraph to a page it overflows, and then
\* started a new page for a heading
Witness_C28 ==
    /\ lastPass.ran /\ lastPass.isPasteOperation
    /\ Len(lastPass.newDoc) = 2
    /\ \E body \in {bodyOf(lastPass.newDoc[1])} :
           /\ Len(body) = 2 /\ isParagraphNode(body[2])
           /\ body[1].h < lastPass.newDoc[1].attrs.bodyHeight
           /\ body[1].h + body[2].h > lastPass.newDoc[1].attrs.bodyHeight
    /\ ~isParagraphNode(bodyOf(lastPass.newDoc[2])[1])

\* a paste pass that started a new page for a paragraph, the page before
\* being full to its body's height
FullPageWitness_C28 ==
    /\ lastPass.ran /\ lastPass.isPasteOperation
    /\ Len(lastPass.newDoc) >= 2
    /\ isParagraphNode(bodyOf(lastPass.newDoc[2])[1])
    /\ SumHeights(bodyOf(lastPass.newDoc[1])) >= lastPass.newDoc[1].attrs.bodyHeight

\* whether the old cursor offset of the pass is neither a key of the
\* position map nor inside the recorded range of any flow block
outsideEveryBlock(pass) ==
    /\ pass.oldCursorPos \notin DOMAIN pass.oldToNewPosMap
    /\ \A i \in 1..Len(pass.contentNodes) :
           ~inRange(pass.oldCursorPos, pass.contentNodes[i].pos,
                    pass.contentNodes[i].pos + nodeSize(pass.contentNodes[i].node))

\* C29: when a pass replaces the document and the old cursor offset is
\* neither a key of the position map nor inside a flow block, and the map is
\* not empty, the new offset is the mapped value of the key closest to the
\* old offset, the lowest one when two keys are equally close.
NearestKey_C29 ==
    (lastPass.ran /\ lastPass.replaced /\ outsideEveryBlock(lastPass)
     /\ DOMAIN lastPass.oldToNewPosMap # {}) =>
        \E k \in DOMAIN lastPass.oldToNewPosMap :
            /\ lastPass.newCursorPos = lastPass.oldToNewPosMap[k]
            /\ \A j \in DOMAIN lastPass.oldToNewPosMap :
                   \/ Abs(k - lastPass.oldCursorPos) < Abs(j - lastPass.oldCursorPos)
                   \/ Abs(k - lastPass.oldCursorPos) = Abs(j - lastPass.oldCursorPos) /\ k <= j

\* a cursor between two pages, as far from the block before it as from the
\* block after it: it goes to the block before it
Witness_C29 ==
    /\ lastPass.ran /\ lastPass.replaced /\ outsideEveryBlock(lastPass)
    /\ \E k, j \in DOMAIN lastPass.oldToNewPosMap :
           /\ k < lastPass.oldCursorPos /\ lastPass.oldCursorPos < j
           /\ lastPass.oldCursorPos - k = j - lastPass.oldCursorPos
           /\ \A x \in DOMAIN lastPass.oldToNewPosMap :
                  Abs(x - lastPass.oldCursorPos) >= j - lastPass.oldCursorPos
           /\ lastPass.oldToNewPosMap[k] # lastPass.oldToNewPosMap[j]
           /\ lastPass.newCursorPos = lastPass.oldToNewPosMap[k]

\* the blocks of the kinds `types` that are the first child of a body of the
\* document d, and those that are the last child of one
firstOfBody(d, types) ==
    {n \in flowBlocks(d) :
        /\ n.node.type \in types
        /\ \E i \in 1..Len(allNodes(d)) :
               /\ isBodyNode(allNodes(d)[i].node)
               /\ allNodes(d)[i].pos = n.parentPos
               /\ n.pos = allNodes(d)[i].pos + 1}

lastOfBody(d, types) ==
    {n \in flowBlocks(d) :
        /\ n.node.type \in types
        /\ \E i \in 1..Len(allNodes(d)) :
               /\ isBodyNode(allNodes(d)[i].node)
               /\ allNodes(d)[i].pos = n.parentPos
               /\ n.pos + nodeSize(n.node)
                      = allNodes(d)[i].pos + nodeSize(allNodes(d)[i].node) - 1}

\* what the exact predicates are to give at offset pos, the blocks they
\* look at being those of the kinds `types`: the start of the content of the
\* first child of a body or the start of the document, and the end of the
\* content of the last child of a body or the end of the document
exactStartExpected(d, pos, types) ==
    pos = 0 \/ \E n \in firstOfBody(d, types) : pos = n.pos + 1

exactEndExpected(d, pos, types) ==
    pos = contentSize(d) \/ \E n \in lastOfBody(d, types) : pos = n.pos + nodeSize(n.node) - 1

\* C30 as claimed: for every offset of the document the exact start
\* predicates are true iff the offset is the start of the content of the
\* first block of the enclosing body, whatever kind of text block it is, or
\* the start of the document; the exact end predicates iff it is the end of
\* the content of the last block of the enclosing body or the end of the
\* document.
ExactBoundaryAnyBlock_C30 ==
    (lastStep.kind = "predicate" /\ ~lastStep.threw) =>
        /\ lastStep.results[1] = exactStartExpected(doc, lastStep.pos, TextblockTypes)
        /\ lastStep.results[5] = exactStartExpected(doc, lastStep.pos, TextblockTypes)
        /\ lastStep.results[3] = exactEndExpected(doc, lastStep.pos, TextblockTypes)
        /\ lastStep.results[7] = exactEndExpected(doc, lastStep.pos, TextblockTypes)

\* C30 for paragraphs: the same with the paragraphs as the only blocks the
\* predicates look at; at the start or the end of the content of a heading
\* they are false.
ExactBoundary_C30 ==
    (lastStep.kind = "predicate" /\ ~lastStep.threw) =>
        /\ lastStep.results[1] = exactStartExpected(doc, lastStep.pos, {"paragraph"})
        /\ lastStep.results[5] = exactStartExpected(doc, lastStep.pos, {"paragraph"})
        /\ lastStep.results[3] = exactEndExpected(doc, lastStep.pos, {"paragraph"})
        /\ lastStep.results[7] = exactEndExpected(doc, lastStep.pos, {"paragraph"})

\* the start of the content of the paragraph that begins the body of the
\* second page, a paragraph with text that is the last of its body as well:
\* the exact start predicates are true, the exact end predicates false
Witness_C30 ==
    /\ lastStep.kind = "predicate" /\ ~lastStep.threw
    /\ Len(doc) = 2 /\ isPageNode(doc[2])
    /\ \E n \in firstOfBody(doc, {"paragraph"}) \cap lastOfBody(doc, {"paragraph"}) :
           /\ n.pos > nodeSize(doc[1])
           /\ n.node.text > 0
           /\ lastStep.pos = n.pos + 1
    /\ lastStep.results[1] /\ lastStep.results[5]
    /\ ~lastStep.results[3] /\ ~lastStep.results[7]

\* what the non-exact predicates are to give at offset pos, the blocks they
\* look at being those of the kinds `types`: any offset within the first
\* (the last) child of a body, or the start (the end) of the document
nonExactStartExpected(d, pos, types) ==
    pos = 0 \/ \E n \in firstOfBody(d, types) :
                   n.pos < pos /\ pos < n.pos + nodeSize(n.node)

nonExactEndExpected(d, pos, types) ==
    pos = contentSize(d) \/ \E n \in lastOfBody(d, types) :
                                n.pos < pos /\ pos < n.pos + nodeSize(n.node)

\* C31 as claimed: for every offset of the document the non-exact start
\* predicates are true iff the offset lies within the first block of the
\* enclosing body, whatever kind of text block it is and whatever the
\* offset inside it, and the non-exact end predicates iff it lies within
\* the last block of the enclosing body; the boundaries of the document
\* count as start and end as they do for the exact predicates.
NonExactBoundaryAnyBlock_C31 ==
    (lastStep.kind = "predicate" /\ ~lastStep.threw) =>
        /\ lastStep.results[2] = nonExactStartExpected(doc, lastStep.pos, TextblockTypes)
        /\ lastStep.results[6] = nonExactStartExpected(doc, lastStep.pos, TextblockTypes)
        /\ lastStep.results[4] = nonExactEndExpected(doc, lastStep.pos, TextblockTypes)
        /\ lastStep.results[8] = nonExactEndExpected(doc, lastStep.pos, TextblockTypes)

\* C31 for paragraphs: the same with the paragraphs as the only blocks the
\* predicates look at; within a heading they are false.
NonExactBoundary_C31 ==
    (lastStep.kind = "predicate" /\ ~lastStep.threw) =>
        /\ lastStep.results[2] = nonExactStartExpected(doc, lastStep.pos, {"paragraph"})
        /\ lastStep.results[6] = nonExactStartExpected(doc, lastStep.pos, {"paragraph"})
        /\ lastStep.results[4] = nonExactEndExpected(doc, lastStep.pos, {"paragraph"})
        /\ lastStep.results[8] = nonExactEndExpected(doc, lastStep.pos, {"paragraph"})

\* an offset in the middle of the text of a paragraph that is the first of
\* its body and not the last: the non-exact start predicates are true, the
\* exact ones and the end predicates false
Witness_C31 ==
    /\ lastStep.kind = "predicate" /\ ~lastStep.threw
    /\ \E n \in firstOfBody(doc, {"paragraph"}) \ lastOfBody(doc, {"paragraph"}) :
           /\ n.pos + 1 < lastStep.pos
           /\ lastStep.pos < n.pos + nodeSize(n.node) - 1
    /\ lastStep.results[2] /\ lastStep.results[6]
    /\ ~lastStep.results[1] /\ ~lastStep.results[5]
    /\ ~lastStep.results[4] /\ ~lastStep.results[8]

\* every page of the document d resolves to a body height that is not
\* positive
capacityInvalid(d) ==
    /\ Len(d) >= 1
    /\ \A i \in 1..Len(d) : isPageNode(d[i]) /\ d[i].attrs.bodyHeight <= 0

\* C32: a pass over a document whose pages all resolve to a body height
\* that is not positive places every collected block, in order, and emits
\* as many pages as there are blocks, each holding one block.
InvalidCapacity_C32 ==
    (lastPass.ran /\ capacityInvalid(lastPass.oldDoc)) =>
        /\ Concat(packedBodies(lastPass.newDoc)) = inputNodes(lastPass)
        /\ Len(lastPass.newDoc) = Len(lastPass.contentNodes)
        /\ \A i \in 1..Len(lastPass.newDoc) : Len(bodyOf(lastPass.newDoc[i])) = 1

\* three blocks that stood on one page of body height 0, a paragraph among
\* them, come out of a paste pass on three pages
Witness_C32 ==
    /\ lastPass.ran /\ lastPass.isPasteOperation
    /\ capacityInvalid(lastPass.oldDoc)
    /\ Len(lastPass.oldDoc) = 1 /\ lastPass.oldDoc[1].attrs.bodyHeight = 0
    /\ Len(lastPass.contentNodes) = 3
    /\ \E i \in 2..3 : isParagraphNode(lastPass.contentNodes[i].node)
    /\ Len(lastPass.newDoc) = 3

\* the attributes the old document d has for the page of index i (counted
\* from 1): those of its page at that index, the defaults where it has none
oldPageAttributes(d, i) ==
    IF i <= Len(d) /\ isPageNode(d[i]) THEN d[i].attrs ELSE DefaultPageAttributes

\* C33: every page a pass builds at an index below the old page count has
\* the attributes of the old page at that index, and every page it builds
\* at an index at or past the old page count has the default attributes.
AttributeCarryOver_C33 ==
    lastPass.ran =>
        \A i \in 1..Len(lastPass.newDoc) :
            lastPass.newDoc[i].attrs = oldPageAttributes(lastPass.oldDoc, i)

\* the part of C33 about the indices the old document has: those pages keep
\* their attributes
CarryOverInRange_C33 ==
    lastPass.ran =>
        \A i \in 1..Len(lastPass.newDoc) :
            i <= Len(lastPass.oldDoc) =>
                lastPass.newDoc[i].attrs = oldPageAttributes(lastPass.oldDoc, i)

\* what the pages past the old page count have: the attributes of the page
\* before them
CarryOverPastRange_C33 ==
    lastPass.ran =>
        \A i \in 2..Len(lastPass.newDoc) :
            i > Len(lastPass.oldDoc) =>
                lastPass.newDoc[i].attrs = lastPass.newDoc[i - 1].attrs

\* C34: whenever no handler is running, isPaginating is false: every pass,
\* run by update or by either timer callback, ended by the dispatch of its
\* transaction or by an exception, has released the guard when its handler
\* returns.
GuardReleased_C34 == ~isPaginating

\* the callback of the paste timer ran a pass that ended in its catch
\* block, and the guard is free
Witness_C34 ==
    /\ lastStep.kind = "pasteTimer" /\ lastStep.passes = 1
    /\ lastPass.ran /\ lastPass.replaced
    /\ consecutiveErrors >= 1 /\ lastErrorTime = now
    /\ ~isPaginating

\* the same for a pass update ran at once and for one the delayed timer ran
ImmediateWitness_C34 ==
    /\ lastStep.kind = "edit" /\ lastStep.branch = "immediate" /\ lastStep.passes = 1
    /\ consecutiveErrors >= 1 /\ lastErrorTime = now
    /\ ~isPaginating

DelayedWitness_C34 ==
    /\ lastStep.kind = "delayedTimer" /\ lastStep.passes = 1
    /\ lastPass.ran
    /\ ~isPaginating

\* C35: once the view is destroyed no step runs a pass and none changes the
\* document, the selection or the plugin state, whichever timer fires.
NoPassAfterDestroy_C35 ==
    [][isDestroyed =>
          /\ lastStep'.passes = 0
          /\ ~lastPass'.ran
          /\ doc' = doc /\ selection' = selection /\ pluginState' = pluginState
          /\ consecutiveErrors' = consecutiveErrors /\ ~isPaginating']_vars

\* a paste timer that destroy did not clear has fired on the destroyed
\* view, with the document still to be repaginated
Witness_C35 ==
    /\ isDestroyed
    /\ lastStep.kind = "pasteTimer" /\ lastStep.passes = 0
    /\ pluginState.pendingPagination

\* the same for a delayed timer
DelayedWitness_C35 ==
    /\ isDestroyed
    /\ lastStep.kind = "delayedTimer" /\ lastStep.passes = 0

\* the circuit breaker is tripped: three or more failures in a row, the
\* last one less than five seconds ago
breakerTripped == tooManyErrors(consecutiveErrors, now - lastErrorTime)

\* C36: while the circuit breaker is tripped no step begins a pass, neither
\* a view update nor the callback of a timer that was set before.
BreakerCoversTimers_C36 ==
    [][breakerTripped => (lastStep'.passes = 0 /\ ~lastPass'.ran)]_vars

\* the part of C36 about view updates: while the breaker is tripped, no
\* update begins a pass
BreakerCoversUpdates_C36 ==
    [][(breakerTripped /\ lastStep'.kind \in UpdateKinds) =>
          (lastStep'.passes = 0 /\ ~lastPass'.ran)]_vars

\* the step was the callback of the paste timer and the transaction of its
\* pass was applied
pastePassCommitted ==
    /\ lastStep.kind = "pasteTimer" /\ lastStep.passes = 1
    /\ \E i \in 1..Len(lastStep.submitted) : "paginationApplied" \in lastStep.submitted[i]

\* C37: when the pass of the paste timer has committed, wasPasted is false.
PasteFlagConsumed_C37 == pastePassCommitted => ~pluginState.wasPasted

\* what follows from the flag that stays set: after the pass of the paste
\* timer has committed, with no further paste, a transaction without steps
\* inside the two seconds is sent to the paste branch again and sets a
\* second timer
RoutedAgain_C37 ==
    /\ lastStep.kind = "selection" /\ lastStep.branch = "paste"
    /\ pluginState.lastPaginationTime > lastPasteTime
    /\ ~pluginState.pendingPagination
    /\ nextTimerId = 3 /\ Cardinality(timers) = 1

\* time has reached the bound of the model while a timer is not yet due
timeRanOut == ticksElapsed >= MaxTicks /\ \E t \in timers : t.due > now

\* C38: with timers that fire and no pass in which measuring or packing
\* throws, whenever pendingPagination is set on a live view, a state
\* follows in which a pass has committed and pendingPagination is false.
EventualRepagination_C38 ==
    pluginState.pendingPagination ~>
        (~pluginState.pendingPagination \/ isDestroyed \/ timeRanOut)

\* the state the edits leave when they stop: the document repaginated, no
\* timer set, and pendingPagination still set
LeftPending_C38 ==
    /\ ~isDestroyed /\ timers = {} /\ ~isPaginating
    /\ lastStep.kind = "edit" /\ lastStep.branch = "immediate"
    /\ lastPass.ran /\ lastPass.replaced /\ ~lastPass.failed
    /\ doc = lastPass.newDoc
    /\ pluginState.pendingPagination
    /\ ~breakerTripped

\* C39: for every document and every offset of it, each exact predicate
\* that is true has its non-exact counterpart true: start of body and first
\* child of body, end of body and last child of body, and the same for the
\* page variants.
ExactImpliesNonExact_C39 ==
    (lastStep.kind = "predicate" /\ ~lastStep.threw) =>
        /\ lastStep.results[1] => lastStep.results[2]
        /\ lastStep.results[3] => lastStep.results[4]
        /\ lastStep.results[5] => lastStep.results[6]
        /\ lastStep.results[7] => lastStep.results[8]

\* the end of the text of the last paragraph of a page body, before the
\* end of the document: exact and non-exact end predicates are true, the
\* exact start predicates false
Witness_C39 ==
    /\ lastStep.kind = "predicate" /\ ~lastStep.threw
    /\ lastStep.pos > 0 /\ lastStep.pos < contentSize(doc)
    /\ \E n \in lastOfBody(doc, {"paragraph"}) :
           n.node.text > 0 /\ lastStep.pos = n.pos + nodeSize(n.node) - 1
    /\ lastStep.results[3] /\ lastStep.results[4]
    /\ lastStep.results[7] /\ lastStep.results[8]
    /\ ~lastStep.results[1] /\ ~lastStep.results[5]

\* ------------------------------------------------------------- Backspace
\* the content with the node that starts at offset `target` replaced by the
\* nodes `new`
RECURSIVE replaceNodeAt(_, _, _, _)
replaceNodeAt(content, start, target, new) ==
    IF content = <<>> THEN <<>>
    ELSE LET node == Head(content)
             rest == replaceNodeAt(Tail(content), start + nodeSize(node), target, new)
         IN  IF start = target THEN new \o Tail(content)
             ELSE IF node.type \in TextblockTypes THEN <<node>> \o rest
             ELSE <<[node EXCEPT !.content = replaceNodeAt(@, start + 1, target, new)]>> \o rest

\* state.selection.from !== state.selection.to
isHighlighting(sel) == sel.anchor # sel.head

\* the index in allNodes(d) of the paragraph around pos, 0 without one
getParagraphNodeAndPosition(d, pos) ==
    LET i == nodeAround(d, pos)
    IN  IF i # 0 /\ isParagraphNode(allNodes(d)[i].node) THEN i ELSE 0

\* the index in allNodes(d) of the page around pos, 0 without one
getPageNodeAndPosition(d, pos) ==
    LET nodes == allNodes(d)
        pages == {i \in 1..Len(nodes) :
                     /\ isPageNode(nodes[i].node)
                     /\ nodes[i].pos < pos /\ pos < nodes[i].pos + nodeSize(nodes[i].node)}
    IN  IF pages = {} THEN 0 ELSE CHOOSE i \in pages : TRUE

\* doc.childBefore(pos): the index in allNodes(d) of the child of the
\* document that ends at or before pos, 0 without one
childBefore(d, pos) ==
    LET nodes == allNodes(d)
        before == {i \in 1..Len(nodes) :
                      /\ nodes[i].parentPos = Null
                      /\ nodes[i].pos + nodeSize(nodes[i].node) <= pos}
    IN  IF before = {} THEN 0
        ELSE CHOOSE i \in before : \A j \in before : nodes[j].pos <= nodes[i].pos

\* the index in allNodes(d) of the last child of the body of the page at
\* index `page`, 0 where that child is no paragraph or the page has no body
getLastParagraphInPreviousPageBodyBeforePos(d, page) ==
    LET nodes == allNodes(d)
        bodies == {i \in 1..Len(nodes) :
                      isBodyNode(nodes[i].node) /\ nodes[i].parentPos = nodes[page].pos}
        last == {i \in 1..Len(nodes) :
                    /\ isParagraphNode(nodes[i].node)
                    /\ \E b \in bodies :
                           /\ nodes[i].parentPos = nodes[b].pos
                           /\ nodes[i].pos + nodeSize(nodes[i].node) + 1
                                  = nodes[b].pos + nodeSize(nodes[b].node)}
    IN  IF last = {} THEN 0 ELSE CHOOSE i \in last : TRUE

\* tr.delete(pos, pos + node.nodeSize). A parent that has to keep a child
\* is either left without one or given an empty paragraph in its place,
\* as the schema of the parent has it (refill)
deleteNode(d, i, refill) ==
    LET nodes == allNodes(d)
        p == parentOf(d, i)
        only == p # 0 /\ Len(nodes[p].node.content) = 1
    IN  IF only /\ refill
        THEN replaceNodeAt(d, 0, nodes[i].pos, <<[nodes[i].node EXCEPT !.text = 0]>>)
        ELSE replaceNodeAt(d, 0, nodes[i].pos, <<>>)

\* the paragraph at index i with the text of the paragraph `appended` after
\* its own
appendAndReplaceNode(d, at, node, appended) ==
    replaceNodeAt(d, 0, at, <<[node EXCEPT !.text = @ + appended.text]>>)

\* Selection.near(doc.resolve(pos), -1): pos itself inside a text block,
\* else the end of the previous text block, else the start of the next one,
\* else the whole document
selectionNearBackwards(d, pos) ==
    LET nodes == allNodes(d)
        blocks == {i \in 1..Len(nodes) : nodes[i].node.type \in TextblockTypes}
        ahead == {i \in blocks : nodes[i].pos >= pos}
        behind == {i \in blocks : nodes[i].pos + nodeSize(nodes[i].node) <= pos}
    IN  IF resolve(d, pos).parentType \in TextblockTypes THEN [anchor |-> pos, head |-> pos]
        ELSE IF behind # {}
        THEN LET i == CHOOSE x \in behind : \A y \in behind : nodes[y].pos <= nodes[x].pos
                 end == nodes[i].pos + nodeSize(nodes[i].node) - 1
             IN  [anchor |-> end, head |-> end]
        ELSE IF ahead # {}
        THEN LET i == CHOOSE x \in ahead : \A y \in ahead : nodes[x].pos <= nodes[y].pos
             IN  [anchor |-> nodes[i].pos + 1, head |-> nodes[i].pos + 1]
        ELSE [anchor |-> 0, head |-> contentSize(d)]

\* the previous text block from the offset before the node that stood at pos
moveToPreviousTextBlock(d, pos) == selectionNearBackwards(d, pos - 1)

setSelectionAtPos(pos) == [anchor |-> pos, head |-> pos]

\* what a key handler leaves: what it returned, whether it called dispatch,
\* and the document and the selection of the transaction it dispatched
keyRecord(d, sel, branch, returned, dispatched, newDoc, newSel) ==
    [kind |-> "Backspace", oldDoc |-> d, oldSelection |-> sel, branch |-> branch,
     returned |-> returned, dispatched |-> dispatched, doc |-> newDoc,
     selection |-> newSel]

notHandled(d, sel, branch) == keyRecord(d, sel, branch, FALSE, FALSE, d, sel)

\* the page before the page of the cursor takes the paragraph of the cursor
\* at the end of its last paragraph
mergeIntoPreviousPage(d, sel, refill) ==
    LET nodes == allNodes(d)
        thisPos == sel.anchor
        para == getParagraphNodeAndPosition(d, thisPos)
        page == getPageNodeAndPosition(d, thisPos)
        prevPage == IF page = 0 THEN 0 ELSE childBefore(d, nodes[page].pos)
        prevPara == IF prevPage = 0 \/ ~isPageNode(nodes[prevPage].node) THEN 0
                    ELSE getLastParagraphInPreviousPageBodyBeforePos(d, prevPage)
    IN  IF page = 0 THEN notHandled(d, sel, "no page")
        ELSE IF prevPage = 0 THEN notHandled(d, sel, "no previous page")
        ELSE IF ~isPageNode(nodes[prevPage].node) THEN notHandled(d, sel, "no previous page")
        ELSE IF prevPara = 0 \/ para = 0 THEN notHandled(d, sel, "no paragraph")
        ELSE LET prev == nodes[prevPara].node
                 this == nodes[para].node
                 deleted == IF prev.text # 0 \/ this.text # 0
                            THEN deleteNode(d, para, refill) ELSE d
                 merged == appendAndReplaceNode(deleted, nodes[prevPara].pos, prev, this)
             IN  keyRecord(d, sel, "merge", TRUE, TRUE, merged,
                           setSelectionAtPos(nodes[prevPara].pos + 1 + prev.text + this.text))

\* the Backspace handler of the keymap with a dispatch function
Backspace(d, sel, refill) ==
    LET nodes == allNodes(d)
        thisPos == sel.anchor
        para == getParagraphNodeAndPosition(d, thisPos)
    IN  IF isHighlighting(sel) THEN notHandled(d, sel, "highlighting")
        ELSE IF ~isPositionWithinParagraph(d, thisPos) THEN notHandled(d, sel, "no paragraph")
        ELSE IF isPosMatchingEndOfBodyCondition(d, thisPos, TRUE)
        THEN IF para = 0 THEN notHandled(d, sel, "no paragraph")
             ELSE IF nodes[para].node.text = 0
             THEN LET deleted == deleteNode(d, para, refill)
                  IN  keyRecord(d, sel, "delete paragraph", TRUE, TRUE, deleted,
                                moveToPreviousTextBlock(deleted, nodes[para].pos))
             ELSE keyRecord(d, sel, "delete character", TRUE, TRUE,
                            replaceNodeAt(d, 0, nodes[para].pos,
                                          <<[nodes[para].node EXCEPT !.text = @ - 1]>>),
                            setSelectionAtPos(thisPos - 1))
        ELSE IF isPosAtStartOfDocument(d, thisPos, TRUE)
        THEN keyRecord(d, sel, "start of document", TRUE, FALSE, d, sel)
        ELSE IF ~isPosMatchingStartOfBodyCondition(d, thisPos, TRUE)
        THEN notHandled(d, sel, "default")
        ELSE mergeIntoPreviousPage(d, sel, refill)

\* the user presses Backspace: the handler runs on the state of the view
\* and the view applies what it dispatched
PressBackspace(refill) ==
    /\ \E r \in {Backspace(doc, selection, refill)} :
           /\ lastStep' = r
           /\ doc' = r.doc
           /\ selection' = r.selection
    /\ UNCHANGED <<options, lastPass, pluginState, isPaginating, lastDocSize,
                   lastCharCount, paginationTimer, consecutiveErrors, lastErrorTime,
                   lastPasteTime, timers, nextTimerId, now, isDestroyed>>

\* the user puts the cursor somewhere else
MoveCursor(pos) ==
    /\ resolve(doc, pos).parentType \in TextblockTypes
    /\ selection' = setSelectionAtPos(pos)
    /\ lastStep' = [kind |-> "cursor"]
    /\ UNCHANGED <<doc, options, lastPass, pluginState, isPaginating, lastDocSize,
                   lastCharCount, paginationTimer, consecutiveErrors, lastErrorTime,
                   lastPasteTime, timers, nextTimerId, now, isDestroyed>>

\* a document of the cursor mapping with the cursor in a text block, or
\* with a range of text selected
InitBackspace ==
    /\ doc \in RemapDocs
    /\ \E anchor, head \in 0..contentSize(doc) :
           /\ anchor <= head
           /\ resolve(doc, anchor).parentType \in TextblockTypes
           /\ resolve(doc, head).parentType \in TextblockTypes
           /\ selection = [anchor |-> anchor, head |-> head]
    /\ options = [enableHeader |-> FALSE, enableFooter |-> FALSE]
    /\ lastPass = noPass
    /\ InitPlugin

NextBackspace ==
    \/ \E refill \in BOOLEAN : PressBackspace(refill)
    \/ \E pos \in 0..contentSize(doc) : MoveCursor(pos)

SpecBackspace == InitBackspace /\ [][NextBackspace]_vars

\* the Backspace that was pressed last found a collapsed cursor at the start
\* of the first paragraph of the document
backspaceAtStartOfFirstParagraph ==
    /\ lastStep.kind = "Backspace"
    /\ ~isHighlighting(lastStep.oldSelection)
    /\ \E b \in flowBlocks(lastStep.oldDoc) :
           /\ \A c \in flowBlocks(lastStep.oldDoc) : b.pos <= c.pos
           /\ isParagraphNode(b.node)
           /\ lastStep.oldSelection.anchor = b.pos + 1

\* that paragraph is empty and the only child of a body
firstParagraphIsEmptyBody(d) ==
    \E b \in flowBlocks(d) :
        /\ \A c \in flowBlocks(d) : b.pos <= c.pos
        /\ b.node.text = 0
        /\ \E i \in 1..Len(allNodes(d)) :
               /\ allNodes(d)[i].pos = b.parentPos
               /\ isBodyNode(allNodes(d)[i].node)
               /\ Len(allNodes(d)[i].node.content) = 1

\* C40: Backspace with a collapsed cursor at the start of the first
\* paragraph of the document returns true, dispatches no transaction and
\* leaves the document as it was, whatever that paragraph holds
BackspaceAtDocumentStart_C40 ==
    backspaceAtStartOfFirstParagraph =>
        /\ lastStep.returned
        /\ ~lastStep.dispatched
        /\ doc = lastStep.oldDoc

\* the same for a first paragraph that is not at once empty and the only
\* child of its body
BackspaceConsumed_C40 ==
    (backspaceAtStartOfFirstParagraph /\ ~firstParagraphIsEmptyBody(lastStep.oldDoc)) =>
        /\ lastStep.returned
        /\ ~lastStep.dispatched
        /\ lastStep.branch = "start of document"
        /\ doc = lastStep.oldDoc

\* for an empty first paragraph that is the only child of its body the
\* handler takes the branch of the end of the body and dispatches
BackspaceDeletesFirstParagraph_C40 ==
    (backspaceAtStartOfFirstParagraph /\ firstParagraphIsEmptyBody(lastStep.oldDoc)) =>
        /\ lastStep.branch = "delete paragraph"
        /\ lastStep.dispatched

\* the first page left without its paragraph
FirstParagraphDeleted_C40 ==
    /\ backspaceAtStartOfFirstParagraph
    /\ lastStep.dispatched
    /\ flowBlocks(doc) # flowBlocks(lastStep.oldDoc)
====
